---- MODULE Spec2Model ----
(***************************************************************************)
(* Verification model of the bytebeat synthesizer (Kajmany/bytebeat):      *)
(* the expression compiler (lexer, Pratt parser, evaluator), the event     *)
(* handler and UI state machine, and the PipeWire audio backend.           *)
(***************************************************************************)
EXTENDS Integers, Sequences, FiniteSets, TLC

\* --- the compiler harness: a source, what Beat::compile returned for it, the
\* arena the parser filled, the samples an evaluation loop produced, and a
\* Lexer over the source with the tokens its next() has returned so far
VARIABLES src_in, gen, compiled, arena_out, samples, lexer, tokens

\* --- the UI thread: the App, the EventHandler's event queue, the number of keys
\* the terminal has delivered, and what the last update submitted
VARIABLES app, term_queue, keys_pressed, last_submit

\* --- the audio thread (PipeWire backend): the command channel, the ArcSwap
\* BEAT with the history of what was stored in it, the stream's active flag
\* and volume, T_WRITE, the sample ring, the process callback in progress,
\* the numbers of commands sent and of callbacks started, and the record of
\* every eval call the process callback has made
VARIABLES cmd_queue, BEAT, stored, stream_active, stream_volume, T_WRITE, ring,
          proc, sends, buffers, evals

\* --- the play cursor and the scope: the capacity the ring was built with,
\* T_PLAY, the number of frames the device has played, the t_sync timer
\* callback in progress, and the Scope widget
VARIABLES capacity, T_PLAY, played, timer, scope

\* --- the WASAPI backend: which backend the program was built with, the
\* StreamStateTracker, the StateChange events it has sent, and the audio
\* thread's position in wasapi::main with its device
VARIABLES backend, state_tracker, reported, wasapi

\* --- the event thread: the clock, the thread's position in EventThread::run
\* with its last_tick and timeout, the terminal events waiting to be read,
\* and how many of them were forwarded while a Tick was due
VARIABLES now, event_thread, stdin, forwarded_due

\* --- the arithmetic harness: two 32-bit operands and what an evaluation of
\* them returned
VARIABLES operands, outcome

compileVars == <<src_in, gen, compiled, arena_out, samples, lexer, tokens>>

uiVars == <<app, term_queue, keys_pressed, last_submit>>

audioVars == <<BEAT, stored, stream_active, stream_volume, T_WRITE, ring, proc, sends, buffers,
              evals>>

scopeVars == <<capacity, T_PLAY, played, timer, scope>>

arithVars == <<operands, outcome>>

wasapiVars == <<backend, state_tracker, reported, wasapi>>

eventVars == <<now, event_thread, stdin, forwarded_due>>

vars == <<compileVars, uiVars, cmd_queue, audioVars, arithVars, scopeVars, wasapiVars, eventVars>>

\* what the actions of one part of the program leave alone
exceptCompile == <<uiVars, cmd_queue, audioVars, arithVars, scopeVars, wasapiVars, eventVars>>

exceptUI == <<compileVars, audioVars, arithVars, scopeVars, wasapiVars, eventVars>>

exceptAudio == <<compileVars, uiVars, arithVars, scopeVars, wasapiVars, eventVars>>

exceptArith == <<compileVars, uiVars, cmd_queue, audioVars, scopeVars, wasapiVars, eventVars>>

exceptScope == <<compileVars, uiVars, arithVars, wasapiVars, eventVars>>

exceptWasapi == <<compileVars, uiVars, arithVars, eventVars>>

exceptEvent == <<compileVars, app, keys_pressed, last_submit, cmd_queue, audioVars, arithVars,
                 scopeVars, wasapiVars>>

(***************************************************************************)
(* 32-bit two's-complement arithmetic (Rust i32 wrapping_* operations).    *)
(* Values are signed integers in [INT32_MIN, INT32_MAX]; every operator    *)
(* keeps its intermediate results inside that range.                       *)
(***************************************************************************)
INT32_MAX == 2147483647

INT32_MIN == -2147483647 - 1

\* x as a little-endian sequence of 4 bytes (two's complement)
ToBytes(x) ==
    LET b0 == x % 256
        q1 == x \div 256
        b1 == q1 % 256
        q2 == q1 \div 256
        b2 == q2 % 256
        q3 == q2 \div 256
        b3 == q3 % 256
    IN  <<b0, b1, b2, b3>>

FromBytes(b) ==
    LET top == IF b[4] >= 128 THEN b[4] - 256 ELSE b[4]
    IN  top * 16777216 + b[3] * 65536 + b[2] * 256 + b[1]

wrapping_add(l, r) ==
    IF l >= 0 /\ r >= 0 /\ l > INT32_MAX - r
      THEN (l + INT32_MIN) + (r + INT32_MIN)
    ELSE IF l < 0 /\ r < 0 /\ l < INT32_MIN - r
      THEN (l - INT32_MIN) + (r - INT32_MIN)
    ELSE l + r

\* !r  (bitwise complement) == -r - 1, never overflows
BitNotI32(r) == (-1) - r

wrapping_neg(r) == IF r = INT32_MIN THEN INT32_MIN ELSE -r

wrapping_sub(l, r) ==
    IF r = INT32_MIN
      THEN wrapping_add(wrapping_add(l, INT32_MAX), 1)
      ELSE wrapping_add(l, -r)

\* schoolbook multiplication on bytes, keeping the low 4 bytes
wrapping_mul(l, r) ==
    LET a == ToBytes(l)
        b == ToBytes(r)
        c1 == a[1] * b[1]
        c2 == a[1] * b[2] + a[2] * b[1] + (c1 \div 256)
        c3 == a[1] * b[3] + a[2] * b[2] + a[3] * b[1] + (c2 \div 256)
        c4 == a[1] * b[4] + a[2] * b[3] + a[3] * b[2] + a[4] * b[1] + (c3 \div 256)
    IN  FromBytes(<<c1 % 256, c2 % 256, c3 % 256, c4 % 256>>)

\* truncation toward zero of l / r for r > 0
TruncDivPos(l, r) ==
    LET q == l \div r
    IN  IF l < 0 /\ l % r # 0 THEN q + 1 ELSE q

\* mutation of wrapping_div: INT32_MIN / -1 saturates instead of wrapping
wrapping_div_Saturating(l, r) ==
    IF r = -1 THEN (IF l = INT32_MIN THEN INT32_MAX ELSE -l)
    ELSE IF r = INT32_MIN THEN (IF l = INT32_MIN THEN 1 ELSE 0)
    ELSE IF r > 0 THEN TruncDivPos(l, r)
    ELSE -TruncDivPos(l, -r)

\* truncating division; INT32_MIN / -1 wraps to INT32_MIN; r # 0
wrapping_div(l, r) ==
    IF r = -1 THEN wrapping_neg(l)
    ELSE IF r = INT32_MIN THEN (IF l = INT32_MIN THEN 1 ELSE 0)
    ELSE IF r > 0 THEN TruncDivPos(l, r)
    ELSE -TruncDivPos(l, -r)

\* remainder with the sign of the dividend; r # 0
wrapping_rem(l, r) ==
    IF r = -1 THEN 0 ELSE l - r * wrapping_div(l, r)

RECURSIVE BitsOp(_, _, _, _)
\* bitwise op on two values in 0..2^n-1, n bits; op in {"and","or","xor"}
BitsOp(op, x, y, n) ==
    IF n = 0 THEN 0
    ELSE LET bx == x % 2
             by == y % 2
             bit == CASE op = "and" -> IF bx = 1 /\ by = 1 THEN 1 ELSE 0
                      [] op = "or"  -> IF bx = 1 \/ by = 1 THEN 1 ELSE 0
                      [] OTHER      -> IF bx # by THEN 1 ELSE 0
         IN  bit + 2 * BitsOp(op, x \div 2, y \div 2, n - 1)

BitwiseI32(op, l, r) ==
    LET a == ToBytes(l)
        b == ToBytes(r)
    IN  FromBytes([i \in 1..4 |-> BitsOp(op, a[i], b[i], 8)])

\* r as u32, masked to the low five bits (wrapping_shl/wrapping_shr)
ShiftAmount(r) == r % 32

RECURSIVE Doubled(_, _)
Doubled(x, s) == IF s = 0 THEN x ELSE Doubled(wrapping_add(x, x), s - 1)

wrapping_shl(l, r) == Doubled(l, ShiftAmount(r))

RECURSIVE Halved(_, _)
\* arithmetic shift right: floor division by two, s times
Halved(x, s) == IF s = 0 THEN x ELSE Halved(x \div 2, s - 1)

wrapping_shr(l, r) == Halved(l, ShiftAmount(r))

\* `as u8`: the low 8 bits
AsU8(x) == x % 256

(***************************************************************************)
(* Lexer (src/src/parser/lex.rs).  A source is a sequence of characters,   *)
(* each character a one-character string.                                  *)
(***************************************************************************)
\* chars.peek() == None
NoChar == ""

DecDigits == <<"0", "1", "2", "3", "4", "5", "6", "7", "8", "9">>

HexLower == <<"a", "b", "c", "d", "e", "f">>

HexUpper == <<"A", "B", "C", "D", "E", "F">>

\* index of c in seq s, 0 when absent
IndexIn(s, c) ==
    IF \E i \in 1..Len(s) : s[i] = c
      THEN CHOOSE i \in 1..Len(s) : s[i] = c
      ELSE 0

\* char::to_digit(36) restricted to hexadecimal digits; -1 when not a digit
DigitVal(c) ==
    IF IndexIn(DecDigits, c) > 0 THEN IndexIn(DecDigits, c) - 1
    ELSE IF IndexIn(HexLower, c) > 0 THEN IndexIn(HexLower, c) + 9
    ELSE IF IndexIn(HexUpper, c) > 0 THEN IndexIn(HexUpper, c) + 9
    ELSE -1

\* char::is_digit(radix)
is_digit(c, radix) == DigitVal(c) >= 0 /\ DigitVal(c) < radix

\* char::is_ascii_digit
is_ascii_digit(c) == IndexIn(DecDigits, c) > 0

\* mutation of is_whitespace: a line feed is not skipped
is_whitespace_NoLineFeed(c) == c \in {" ", "\t", "\r", "\f"}

\* char::is_whitespace || '\r' || '\n'  (the ASCII white space)
is_whitespace(c) == c \in {" ", "\t", "\n", "\r", "\f"}

\* the one element of a singleton set: Pick({e : x \in {v}}) is e with x bound
\* to the value of v, which is computed once
Pick(S) == CHOOSE x \in S : TRUE

\* Lexer::new
LexerNew == [pos |-> 1, line |-> 0, col |-> 0]

\* self.chars.peek()
Peek(src, lx) == IF lx.pos <= Len(src) THEN src[lx.pos] ELSE NoChar

\* mutation of bump: a line feed resets the column without counting the line
bump_LineNotCounted(src, lx) ==
    IF lx.pos > Len(src) THEN lx
    ELSE LET c == src[lx.pos]
         IN  IF c = "\n" THEN [pos |-> lx.pos + 1, line |-> lx.line, col |-> 0]
             ELSE IF c = "\r" THEN [lx EXCEPT !.pos = lx.pos + 1]
             ELSE [lx EXCEPT !.pos = lx.pos + 1, !.col = lx.col + 1]

\* Lexer::bump: consume one character and move line/col
bump(src, lx) ==
    IF lx.pos > Len(src) THEN lx
    ELSE LET c == src[lx.pos]
         IN  IF c = "\n" THEN [pos |-> lx.pos + 1, line |-> lx.line + 1, col |-> 0]
             ELSE IF c = "\r" THEN [lx EXCEPT !.pos = lx.pos + 1]
             ELSE [lx EXCEPT !.pos = lx.pos + 1, !.col = lx.col + 1]

RECURSIVE skip_whitespace(_, _)
skip_whitespace(src, lx) ==
    IF Peek(src, lx) # NoChar /\ is_whitespace(Peek(src, lx))
      THEN skip_whitespace(src, bump(src, lx))
      ELSE lx

TokOp(o) == [kind |-> "Op", op |-> o]

TokNumber(v) == [kind |-> "Number", n |-> v]

TokVariable == [kind |-> "Variable"]

TokEof == [kind |-> "Eof"]

TokErr(e) == [kind |-> "Err", err |-> e]

SolitaryEquals == [ekind |-> "SolitaryEquals"]

UnexpectedChar(ch) == [ekind |-> "UnexpectedChar", c |-> ch]

ImproperNumber(rdx, why) == [ekind |-> "ImproperNumber", radix |-> rdx, detail |-> why]

RECURSIVE CollectDigits(_, _, _, _)
\* the while-let loop of lex_number: digits of the radix, consumed one by one
CollectDigits(src, lx, radix, digits) ==
    IF Peek(src, lx) # NoChar /\ is_digit(Peek(src, lx), radix)
      THEN CollectDigits(src, bump(src, lx), radix, Append(digits, DigitVal(Peek(src, lx))))
      ELSE [digits |-> digits, lx |-> lx]

RECURSIVE FromStrRadixAcc(_, _, _, _)
\* i32::from_str_radix on digit values: the value, or -1 on PosOverflow
FromStrRadixAcc(digits, radix, i, acc) ==
    IF i > Len(digits) THEN acc
    ELSE IF acc > (INT32_MAX - digits[i]) \div radix THEN -1
    ELSE FromStrRadixAcc(digits, radix, i + 1, acc * radix + digits[i])

\* mutation of lex_number: an overflowing literal is an error token
lex_number_OverflowIsError(src, lx, radix) ==
    Pick({ [tok |-> IF Len(d.digits) = 0 THEN TokErr(ImproperNumber(radix, "Empty"))
                    ELSE IF FromStrRadixAcc(d.digits, radix, 1, 0) = -1
                      THEN TokErr(ImproperNumber(radix, "PosOverflow"))
                    ELSE TokNumber(FromStrRadixAcc(d.digits, radix, 1, 0)),
            lx |-> d.lx] : d \in {CollectDigits(src, lx, radix, <<>>)} })

\* Lexer::lex_number
lex_number(src, lx, radix) ==
    Pick({ [tok |-> IF Len(d.digits) = 0 THEN TokErr(ImproperNumber(radix, "Empty"))
                    ELSE IF FromStrRadixAcc(d.digits, radix, 1, 0) = -1
                      THEN TokNumber(INT32_MAX)
                    ELSE TokNumber(FromStrRadixAcc(d.digits, radix, 1, 0)),
            lx |-> d.lx] : d \in {CollectDigits(src, lx, radix, <<>>)} })

\* one-character operators of Lexer::next
SingleOps ==
    [c \in {"+", "-", "/", "*", "%", "^", "~", "?", ":", "(", ")"} |->
        CASE c = "+" -> "Plus"   [] c = "-" -> "Minus" [] c = "/" -> "Div"
          [] c = "*" -> "Mul"    [] c = "%" -> "Mod"   [] c = "^" -> "BitXor"
          [] c = "~" -> "BitNot" [] c = "?" -> "Question" [] c = ":" -> "Colon"
          [] c = "(" -> "Lparen" [] OTHER -> "Rparen"]

\* the match on the peeked character in Lexer::next (peek is Some(c))
LexToken(src, lx) ==
    Pick({
        IF c \in DOMAIN SingleOps THEN [tok |-> TokOp(SingleOps[c]), lx |-> l1]
        ELSE IF c = "&" THEN
            IF n = "&" THEN [tok |-> TokOp("LogAnd"), lx |-> bump(src, l1)]
                       ELSE [tok |-> TokOp("And"), lx |-> l1]
        ELSE IF c = "|" THEN
            IF n = "|" THEN [tok |-> TokOp("LogOr"), lx |-> bump(src, l1)]
                       ELSE [tok |-> TokOp("Or"), lx |-> l1]
        ELSE IF c = "!" THEN
            IF n = "=" THEN [tok |-> TokOp("Ne"), lx |-> bump(src, l1)]
                       ELSE [tok |-> TokOp("LogNot"), lx |-> l1]
        ELSE IF c = "=" THEN
            IF n = "=" THEN [tok |-> TokOp("Eq"), lx |-> bump(src, l1)]
                       ELSE [tok |-> TokErr(SolitaryEquals), lx |-> l1]
        ELSE IF c = "<" THEN
            IF n = "<" THEN [tok |-> TokOp("Lsh"), lx |-> bump(src, l1)]
            ELSE IF n = "=" THEN [tok |-> TokOp("Le"), lx |-> bump(src, l1)]
            ELSE [tok |-> TokOp("Lt"), lx |-> l1]
        ELSE IF c = ">" THEN
            IF n = ">" THEN [tok |-> TokOp("Rsh"), lx |-> bump(src, l1)]
            ELSE IF n = "=" THEN [tok |-> TokOp("Ge"), lx |-> bump(src, l1)]
            ELSE [tok |-> TokOp("Gt"), lx |-> l1]
        ELSE IF c = "0" THEN
            IF n = "x" THEN lex_number(src, bump(src, l1), 16)
            ELSE IF n = "b" THEN lex_number(src, bump(src, l1), 2)
            ELSE IF n # NoChar /\ is_ascii_digit(n) THEN lex_number(src, l1, 8)
            ELSE [tok |-> TokNumber(0), lx |-> l1]
        ELSE IF is_ascii_digit(c) THEN lex_number(src, lx, 10)
        ELSE IF c = "t" THEN [tok |-> TokVariable, lx |-> l1]
        ELSE [tok |-> TokErr(UnexpectedChar(c)), lx |-> l1]
        : c \in {Peek(src, lx)}, l1 \in {bump(src, lx)},
          n \in {Peek(src, bump(src, lx))} })

\* Span::new
SpanNew(l, s, e) == [line |-> l, start |-> s, end |-> e]

\* Lexer::next: the token, its span, the line the token ended on, and the
\* lexer afterwards
LexNext(src, lx) ==
    Pick({ Pick({ [tok |-> r.tok,
                   span |-> SpanNew(l0.line, l0.col,
                                    IF r.lx.col > l0.col THEN r.lx.col - 1 ELSE l0.col),
                   end_line |-> IF r.lx.col > l0.col THEN r.lx.line ELSE l0.line,
                   lx |-> r.lx]
                  : r \in {IF Peek(src, l0) = NoChar
                             THEN [tok |-> TokEof, lx |-> l0]
                             ELSE LexToken(src, l0)} })
           : l0 \in {skip_whitespace(src, lx)} })

(***************************************************************************)
(* Pratt parser (src/src/parser/parse.rs).  Node ids are 0-based indices   *)
(* into the arena, as in the source; arena[id + 1] is the node.            *)
(***************************************************************************)
Literal(v) == [kind |-> "Literal", n |-> v]

VariableNode == [kind |-> "Variable"]

Binary(o, left, right) == [kind |-> "Binary", op |-> o, l |-> left, r |-> right]

Ternary(cond, tb, fb) == [kind |-> "Ternary", c |-> cond, a |-> tb, b |-> fb]

ErrorNode(sp) == [kind |-> "Error", span |-> sp]

UnexpectedEof(sp) == [kind |-> "UnexpectedEof", span |-> sp]

ExpectedOperator(tk, sp) == [kind |-> "ExpectedOperator", tok |-> tk, span |-> sp]

UnmatchedParenthesis(sp) == [kind |-> "UnmatchedParenthesis", span |-> sp]

UnexpectedPrefix(o, sp) == [kind |-> "UnexpectedPrefix", op |-> o, span |-> sp]

ExpectedTernaryColon(sp) == [kind |-> "ExpectedTernaryColon", span |-> sp]

LexErrorP(e, sp) == [kind |-> "LexError", err |-> e, span |-> sp]

NoError == [kind |-> "None"]

\* mutation of binding_power: the additive and the shift level are exchanged
binding_power_ShiftOverAdd(op) ==
    CASE op \in {"Mul", "Div", "Mod"}        -> <<80, 81>>
      [] op \in {"Lsh", "Rsh"}               -> <<70, 71>>
      [] op \in {"Plus", "Minus"}            -> <<60, 61>>
      [] op \in {"Lt", "Gt", "Le", "Ge"}     -> <<50, 51>>
      [] op \in {"Eq", "Ne"}                 -> <<45, 46>>
      [] op = "And"                          -> <<40, 41>>
      [] op = "BitXor"                       -> <<35, 36>>
      [] op = "Or"                           -> <<30, 31>>
      [] op = "LogAnd"                       -> <<25, 26>>
      [] op = "LogOr"                        -> <<20, 21>>
      [] OTHER                               -> <<>>

\* binding_power: <<l_bp, r_bp>>, or <<>> for None
binding_power(op) ==
    CASE op \in {"Mul", "Div", "Mod"}        -> <<80, 81>>
      [] op \in {"Plus", "Minus"}            -> <<70, 71>>
      [] op \in {"Lsh", "Rsh"}               -> <<60, 61>>
      [] op \in {"Lt", "Gt", "Le", "Ge"}     -> <<50, 51>>
      [] op \in {"Eq", "Ne"}                 -> <<45, 46>>
      [] op = "And"                          -> <<40, 41>>
      [] op = "BitXor"                       -> <<35, 36>>
      [] op = "Or"                           -> <<30, 31>>
      [] op = "LogAnd"                       -> <<25, 26>>
      [] op = "LogOr"                        -> <<20, 21>>
      [] OTHER                               -> <<>>

\* mutation of infix_binding_power: the conditional operator groups to the left
infix_binding_power_LeftAssoc(op) == IF op = "Question" THEN <<10, 11>> ELSE <<0, 0>>

infix_binding_power(op) == IF op = "Question" THEN <<10, 9>> ELSE <<0, 0>>

\* binding power of the prefix operators in parse_bp
PrefixBp == 99

PrefixOps == {"Minus", "Plus", "LogNot", "BitNot"}

\* Parser::new: the lexer, the first token, the caller's (empty) arena
ParserNew(src) ==
    Pick({ [lx |-> r.lx, cur |-> [tok |-> r.tok, span |-> r.span],
            arena |-> <<>>, errors |-> <<>>] : r \in {LexNext(src, LexerNew)} })

\* Parser::advance
advance(src, ps) ==
    Pick({ [ps EXCEPT !.lx = r.lx, !.cur = [tok |-> r.tok, span |-> r.span]]
           : r \in {LexNext(src, ps.lx)} })

\* mutation of push_node: the node is put in front of the arena
push_node_InFront(ps, node) == [ps EXCEPT !.arena = <<node>> \o ps.arena]

\* mutation of PushError: the error is not recorded
PushError_Dropped(ps, e) == ps

\* Parser::push_node: the new state; the id of the node is Len(ps.arena)
push_node(ps, node) == [ps EXCEPT !.arena = Append(ps.arena, node)]

PushError(ps, e) == [ps EXCEPT !.errors = Append(ps.errors, e)]

POk(ps, id) == [ok |-> TRUE, id |-> id, err |-> NoError, ps |-> ps]

PErr(ps, e) == [ok |-> FALSE, id |-> 0, err |-> e, ps |-> ps]

IsOp(tok, o) == tok.kind = "Op" /\ tok.op = o

RECURSIVE parse_bp(_, _, _)
RECURSIVE InfixLoop(_, _, _, _)
\* the `loop` of parse_bp, entered with the left operand already built
InfixLoop(src, ps, left, min_bp) ==
    LET tok == ps.cur.tok
        sp  == ps.cur.span
    IN  IF tok.kind = "Eof" THEN POk(ps, left)
        ELSE IF tok.kind = "Err"
          THEN POk(advance(src, PushError(ps, LexErrorP(tok.err, sp))), left)
        ELSE IF tok.kind # "Op" THEN PErr(ps, ExpectedOperator(tok, sp))
        ELSE IF tok.op = "Question" THEN
            IF infix_binding_power(tok.op)[1] < min_bp THEN POk(ps, left)
            ELSE Pick({
                     IF ~tb.ok THEN tb
                     ELSE IF IsOp(tb.ps.cur.tok, "Colon") THEN
                         Pick({ IF ~fb.ok THEN fb
                                ELSE InfixLoop(src,
                                        push_node(fb.ps, Ternary(left, tb.id, fb.id)),
                                        Len(fb.ps.arena), min_bp)
                                : fb \in {parse_bp(src, advance(src, tb.ps),
                                                   infix_binding_power(tok.op)[2])} })
                     ELSE PErr(tb.ps, ExpectedTernaryColon(tb.ps.cur.span))
                     : tb \in {parse_bp(src, advance(src, ps), 0)} })
        ELSE IF binding_power(tok.op) # <<>> THEN
            IF binding_power(tok.op)[1] < min_bp THEN POk(ps, left)
            ELSE Pick({ IF ~right.ok THEN right
                        ELSE InfixLoop(src,
                                push_node(right.ps, Binary(tok.op, left, right.id)),
                                Len(right.ps.arena), min_bp)
                        : right \in {parse_bp(src, advance(src, ps),
                                              binding_power(tok.op)[2])} })
        ELSE POk(ps, left)

\* mutation of PrefixOperand: a lex-error token in operand position ends the
\* parse with its error instead of becoming an Error node
PrefixOperand_ErrAborts(src, ps) ==
    LET tok == ps.cur.tok
        sp  == ps.cur.span
    IN  CASE tok.kind = "Number" ->
               POk(push_node(advance(src, ps), Literal(tok.n)), Len(ps.arena))
          [] tok.kind = "Variable" ->
               POk(push_node(advance(src, ps), VariableNode), Len(ps.arena))
          [] tok.kind = "Op" /\ tok.op = "Lparen" ->
               Pick({ IF ~expr.ok THEN expr
                      ELSE IF IsOp(expr.ps.cur.tok, "Rparen")
                        THEN POk(advance(src, expr.ps), expr.id)
                        ELSE PErr(expr.ps, UnmatchedParenthesis(expr.ps.cur.span))
                      : expr \in {parse_bp(src, advance(src, ps), 0)} })
          [] tok.kind = "Op" /\ tok.op # "Lparen" ->
               IF tok.op \notin PrefixOps THEN PErr(ps, UnexpectedPrefix(tok.op, sp))
               ELSE Pick({ IF ~right.ok THEN right
                           ELSE IF tok.op = "Plus" THEN right
                           ELSE POk(push_node(push_node(right.ps, Literal(0)),
                                              Binary(tok.op, Len(right.ps.arena), right.id)),
                                    Len(right.ps.arena) + 1)
                           : right \in {parse_bp(src, advance(src, ps), PrefixBp)} })
          [] tok.kind = "Err" -> PErr(ps, LexErrorP(tok.err, sp))
          [] OTHER -> PErr(ps, UnexpectedEof(sp))

\* the prefix `match` of parse_bp: the left operand, or the early return
PrefixOperand(src, ps) ==
    LET tok == ps.cur.tok
        sp  == ps.cur.span
    IN  CASE tok.kind = "Number" ->
               POk(push_node(advance(src, ps), Literal(tok.n)), Len(ps.arena))
          [] tok.kind = "Variable" ->
               POk(push_node(advance(src, ps), VariableNode), Len(ps.arena))
          [] tok.kind = "Op" /\ tok.op = "Lparen" ->
               Pick({ IF ~expr.ok THEN expr
                      ELSE IF IsOp(expr.ps.cur.tok, "Rparen")
                        THEN POk(advance(src, expr.ps), expr.id)
                        ELSE PErr(expr.ps, UnmatchedParenthesis(expr.ps.cur.span))
                      : expr \in {parse_bp(src, advance(src, ps), 0)} })
          [] tok.kind = "Op" /\ tok.op # "Lparen" ->
               IF tok.op \notin PrefixOps THEN PErr(ps, UnexpectedPrefix(tok.op, sp))
               ELSE Pick({ IF ~right.ok THEN right
                           ELSE IF tok.op = "Plus" THEN right
                           ELSE POk(push_node(push_node(right.ps, Literal(0)),
                                              Binary(tok.op, Len(right.ps.arena), right.id)),
                                    Len(right.ps.arena) + 1)
                           : right \in {parse_bp(src, advance(src, ps), PrefixBp)} })
          [] tok.kind = "Err" ->
               POk(push_node(advance(src, PushError(ps, LexErrorP(tok.err, sp))),
                             ErrorNode(sp)),
                   Len(ps.arena))
          [] OTHER -> PErr(ps, UnexpectedEof(sp))

\* Parser::parse_bp
parse_bp(src, ps, min_bp) ==
    Pick({ IF ~left.ok THEN left ELSE InfixLoop(src, left.ps, left.id, min_bp)
           : left \in {PrefixOperand(src, ps)} })

\* the errors recorded while parsing, in the order they were recorded: the
\* pushes to self.errors, then the error parse_bp returned (if any)
RecordedErrors(src) ==
    Pick({ IF r.ok THEN r.ps.errors ELSE Append(r.ps.errors, r.err)
           : r \in {parse_bp(src, ParserNew(src), 0)} })

\* mutation of ParserParse: a produced root wins over recorded errors
ParserParse_RootWins(src) ==
    Pick({ IF r.ok
             THEN [ok |-> TRUE, root |-> r.id, errors |-> <<>>, arena |-> r.ps.arena]
             ELSE [ok |-> FALSE, root |-> 0, errors |-> Append(r.ps.errors, r.err),
                   arena |-> r.ps.arena]
           : r \in {parse_bp(src, ParserNew(src), 0)} })

\* Parser::parse: Ok(root) only with an empty error list; the arena is the
\* caller's vector and keeps whatever was pushed
ParserParse(src) ==
    Pick({ IF r.ok
             THEN IF r.ps.errors = <<>>
                    THEN [ok |-> TRUE, root |-> r.id, errors |-> <<>>, arena |-> r.ps.arena]
                    ELSE [ok |-> FALSE, root |-> r.id, errors |-> r.ps.errors,
                          arena |-> r.ps.arena]
             ELSE [ok |-> FALSE, root |-> 0, errors |-> Append(r.ps.errors, r.err),
                   arena |-> r.ps.arena]
           : r \in {parse_bp(src, ParserNew(src), 0)} })

(***************************************************************************)
(* Beat and its evaluator (src/src/parser.rs).                             *)
(***************************************************************************)
BeatOf(ns, rt) == [nodes |-> ns, root |-> rt]

\* mutation of BeatCompile: the empty source short-cuts to an empty silent Beat
BeatCompile_EmptySilent(src) ==
    Pick({ IF src = <<>> \/ r.ok
             THEN [ok |-> TRUE, beat |-> BeatOf(r.arena, r.root), errors |-> <<>>,
                   nodes |-> r.arena]
             ELSE [ok |-> FALSE, beat |-> BeatOf(<<>>, 0), errors |-> r.errors,
                   nodes |-> r.arena]
           : r \in {ParserParse(src)} })

\* Beat::compile: Ok(Beat) or Err(errors); nodes is the local vector the parser
\* filled, which moves into the Beat on success
BeatCompile(src) ==
    Pick({ IF r.ok THEN [ok |-> TRUE, beat |-> BeatOf(r.arena, r.root), errors |-> <<>>,
                         nodes |-> r.arena]
                   ELSE [ok |-> FALSE, beat |-> BeatOf(<<>>, 0), errors |-> r.errors,
                         nodes |-> r.arena]
           : r \in {ParserParse(src)} })

Bool01(b) == IF b THEN 1 ELSE 0

\* the `match op` of eval_node on the evaluated children
EvalBinary(op, l, r) ==
    CASE op = "Plus"   -> wrapping_add(l, r)
      [] op = "Minus"  -> wrapping_sub(l, r)
      [] op = "Mul"    -> wrapping_mul(l, r)
      [] op = "Div"    -> IF r = 0 THEN 0 ELSE wrapping_div(l, r)
      [] op = "Mod"    -> IF r = 0 THEN 0 ELSE wrapping_rem(l, r)
      [] op = "And"    -> BitwiseI32("and", l, r)
      [] op = "Or"     -> BitwiseI32("or", l, r)
      [] op = "BitXor" -> BitwiseI32("xor", l, r)
      [] op = "Lsh"    -> wrapping_shl(l, r)
      [] op = "Rsh"    -> wrapping_shr(l, r)
      [] op = "LogAnd" -> Bool01(l # 0 /\ r # 0)
      [] op = "LogOr"  -> Bool01(l # 0 \/ r # 0)
      [] op = "Eq"     -> Bool01(l = r)
      [] op = "Ne"     -> Bool01(l # r)
      [] op = "Gt"     -> Bool01(l > r)
      [] op = "Lt"     -> Bool01(l < r)
      [] op = "Ge"     -> Bool01(l >= r)
      [] op = "Le"     -> Bool01(l <= r)
      [] op = "BitNot" -> BitNotI32(r)
      [] op = "LogNot" -> Bool01(r = 0)
      [] OTHER         -> 0

\* an evaluation that returned v / an evaluation that panicked
Value(v) == [panic |-> FALSE, v |-> v]

Panicked == [panic |-> TRUE, v |-> 0]

RECURSIVE eval_node(_, _, _)
\* Beat::eval_node; indexing self.nodes[id] outside the vector panics
eval_node(beat, id, t) ==
    IF id < 0 \/ id >= Len(beat.nodes) THEN Panicked
    ELSE LET node == beat.nodes[id + 1]
         IN  CASE node.kind = "Literal"  -> Value(node.n)
               [] node.kind = "Variable" -> Value(t)
               [] node.kind = "Binary"   ->
                    Pick({ IF l.panic \/ r.panic THEN Panicked
                           ELSE Value(EvalBinary(node.op, l.v, r.v))
                           : l \in {eval_node(beat, node.l, t)},
                             r \in {eval_node(beat, node.r, t)} })
               [] node.kind = "Ternary"  ->
                    Pick({ IF c.panic THEN Panicked
                           ELSE IF c.v # 0 THEN eval_node(beat, node.a, t)
                           ELSE eval_node(beat, node.b, t)
                           : c \in {eval_node(beat, node.c, t)} })
               [] OTHER -> Value(0)

\* Beat::eval: the sample as u8, or the panic
BeatEval(beat, t) ==
    Pick({ IF r.panic THEN Panicked ELSE Value(AsU8(r.v))
           : r \in {eval_node(beat, beat.root, t)} })

(***************************************************************************)
(* Reference semantics: the C expression grammar evaluated directly on the *)
(* token sequence with `int` arithmetic (what generate_references.c        *)
(* computes for a song), one grammar rule per precedence level.            *)
(***************************************************************************)
RECURSIVE LexAllFrom(_, _, _)
LexAllFrom(src, lx, acc) ==
    Pick({ IF r.tok.kind = "Eof" THEN acc
           ELSE LexAllFrom(src, r.lx, Append(acc, r.tok))
           : r \in {LexNext(src, lx)} })

\* the tokens of a source, without the final Eof
LexAll(src) == LexAllFrom(src, LexerNew, <<>>)

\* C binary operators by grammar level, loosest first
CLevels ==
    << {"LogOr"}, {"LogAnd"}, {"Or"}, {"BitXor"}, {"And"}, {"Eq", "Ne"},
       {"Lt", "Gt", "Le", "Ge"}, {"Lsh", "Rsh"}, {"Plus", "Minus"},
       {"Mul", "Div", "Mod"} >>

\* a reference result: parsed up to pos (exclusive), value v, ub when the C
\* evaluation hit undefined behaviour
CRes(okv, vv, p, u) == [ok |-> okv, v |-> vv, pos |-> p, ub |-> u]

CFail == CRes(FALSE, 0, 0, FALSE)

\* the C meaning of l op r on int, division and modulo by zero giving 0
CBinary(op, l, r) ==
    CASE op = "LogOr"  -> CRes(TRUE, Bool01(~(l = 0 /\ r = 0)), 0, FALSE)
      [] op = "LogAnd" -> CRes(TRUE, Bool01(~(l = 0 \/ r = 0)), 0, FALSE)
      [] op = "Or"     -> CRes(TRUE, BitwiseI32("or", l, r), 0, FALSE)
      [] op = "BitXor" -> CRes(TRUE, BitwiseI32("xor", l, r), 0, FALSE)
      [] op = "And"    -> CRes(TRUE, BitwiseI32("and", l, r), 0, FALSE)
      [] op = "Eq"     -> CRes(TRUE, Bool01(l = r), 0, FALSE)
      [] op = "Ne"     -> CRes(TRUE, Bool01(~(l = r)), 0, FALSE)
      [] op = "Lt"     -> CRes(TRUE, Bool01(l < r), 0, FALSE)
      [] op = "Gt"     -> CRes(TRUE, Bool01(r < l), 0, FALSE)
      [] op = "Le"     -> CRes(TRUE, Bool01(~(r < l)), 0, FALSE)
      [] op = "Ge"     -> CRes(TRUE, Bool01(~(l < r)), 0, FALSE)
      [] op = "Lsh"    -> IF r < 0 \/ r > 31 THEN CRes(TRUE, 0, 0, TRUE)
                          ELSE CRes(TRUE, Doubled(l, r), 0, FALSE)
      [] op = "Rsh"    -> IF r < 0 \/ r > 31 THEN CRes(TRUE, 0, 0, TRUE)
                          ELSE CRes(TRUE, Halved(l, r), 0, FALSE)
      [] op = "Plus"   -> CRes(TRUE, wrapping_add(l, r), 0, FALSE)
      [] op = "Minus"  -> CRes(TRUE, wrapping_sub(l, r), 0, FALSE)
      [] op = "Mul"    -> CRes(TRUE, wrapping_mul(l, r), 0, FALSE)
      [] op = "Div"    -> IF r = 0 THEN CRes(TRUE, 0, 0, FALSE)
                          ELSE IF l = INT32_MIN /\ r = -1 THEN CRes(TRUE, 0, 0, TRUE)
                          ELSE CRes(TRUE, wrapping_div(l, r), 0, FALSE)
      [] OTHER         -> IF r = 0 THEN CRes(TRUE, 0, 0, FALSE)
                          ELSE IF l = INT32_MIN /\ r = -1 THEN CRes(TRUE, 0, 0, TRUE)
                          ELSE CRes(TRUE, wrapping_rem(l, r), 0, FALSE)

CTokIsOp(toks, pos, ops) ==
    pos <= Len(toks) /\ toks[pos].kind = "Op" /\ toks[pos].op \in ops

RECURSIVE CCond(_, _, _)
RECURSIVE CLevel(_, _, _, _)
RECURSIVE CTail(_, _, _, _)
RECURSIVE CUnary(_, _, _)
\* primary: number | t | ( expression )
CPrimary(toks, pos, t) ==
    IF pos > Len(toks) THEN CFail
    ELSE IF toks[pos].kind = "Number" THEN CRes(TRUE, toks[pos].n, pos + 1, FALSE)
    ELSE IF toks[pos].kind = "Variable" THEN CRes(TRUE, t, pos + 1, FALSE)
    ELSE IF CTokIsOp(toks, pos, {"Lparen"}) THEN
        Pick({ IF e.ok /\ CTokIsOp(toks, e.pos, {"Rparen"})
                 THEN [e EXCEPT !.pos = e.pos + 1]
                 ELSE CFail
               : e \in {CCond(toks, pos + 1, t)} })
    ELSE CFail

\* unary: (+ | - | ! | ~) unary | primary
CUnary(toks, pos, t) ==
    IF CTokIsOp(toks, pos, {"Plus", "Minus", "LogNot", "BitNot"}) THEN
        Pick({ IF ~x.ok THEN CFail
               ELSE [x EXCEPT !.v = CASE o = "Plus"   -> x.v
                                      [] o = "Minus"  -> wrapping_neg(x.v)
                                      [] o = "LogNot" -> Bool01(x.v = 0)
                                      [] OTHER        -> (-1) - x.v]
               : x \in {CUnary(toks, pos + 1, t)}, o \in {toks[pos].op} })
    ELSE CPrimary(toks, pos, t)

\* level k: operand (op operand)*, left to right
CLevel(toks, pos, k, t) ==
    IF k > Len(CLevels) THEN CUnary(toks, pos, t)
    ELSE Pick({ IF ~first.ok THEN CFail ELSE CTail(toks, first, k, t)
                : first \in {CLevel(toks, pos, k + 1, t)} })

CTail(toks, left, k, t) ==
    IF CTokIsOp(toks, left.pos, CLevels[k]) THEN
        Pick({ IF ~right.ok THEN CFail
               ELSE Pick({ CTail(toks,
                                 \* && and || do not evaluate the right operand
                                 \* when the left one decides
                                 CRes(TRUE, val.v, right.pos,
                                      \/ left.ub
                                      \/ /\ ~(o = "LogAnd" /\ left.v = 0)
                                         /\ ~(o = "LogOr" /\ left.v # 0)
                                         /\ (right.ub \/ val.ub)),
                                 k, t)
                           : val \in {CBinary(o, left.v, right.v)} })
               : o \in {toks[left.pos].op},
                 right \in {CLevel(toks, left.pos + 1, k + 1, t)} })
    ELSE left

\* conditional: logical-or (? expression : conditional)?
CCond(toks, pos, t) ==
    Pick({ IF ~c.ok THEN CFail
           ELSE IF CTokIsOp(toks, c.pos, {"Question"}) THEN
               Pick({ IF ~(a.ok /\ CTokIsOp(toks, a.pos, {"Colon"})) THEN CFail
                      ELSE Pick({ IF ~b.ok THEN CFail
                                  ELSE IF c.v # 0
                                    THEN CRes(TRUE, a.v, b.pos, c.ub \/ a.ub)
                                    ELSE CRes(TRUE, b.v, b.pos, c.ub \/ b.ub)
                                  : b \in {CCond(toks, a.pos + 1, t)} })
                      : a \in {CCond(toks, c.pos + 1, t)} })
           ELSE c
           : c \in {CLevel(toks, pos, 1, t)} })

\* the whole source as one C expression: well-formed iff every token is used
CReference(src, t) ==
    Pick({ Pick({ IF r.ok /\ r.pos = Len(toks) + 1 THEN r ELSE CFail
                  : r \in {CCond(toks, 1, t)} })
           : toks \in {LexAll(src)} })

(***************************************************************************)
(* Line editor and error store (src/src/app/input.rs).                     *)
(***************************************************************************)
Min(a, b) == IF a < b THEN a ELSE b

None == <<>>

Some(x) == <<x>>

\* char::is_whitespace on the characters the model types
char_is_whitespace(c) == c \in {" ", "\t", "\n", "\r"}

\* LineInput::default()
LineInputDefault == [cursor |-> 0, buf |-> <<>>]

\* the character U+00E9 (e with acute accent): two bytes in UTF-8
EAcute == "e'"

\* char::len_utf8 on the characters the model types: the others are ASCII
len_utf8(c) == IF c = EAcute THEN 2 ELSE 1

\* str::len: the length of the string in bytes
RECURSIVE str_len(_)
str_len(s) == IF s = <<>> THEN 0 ELSE len_utf8(Head(s)) + str_len(Tail(s))

\* LineInput::from_str: the cursor is the length of s in bytes, the buffer
\* its characters
from_str(s) == [cursor |-> str_len(s), buf |-> s]

\* LineInput::add: Vec::insert at the cursor, cursor += 1
add(inp, c) ==
    [cursor |-> inp.cursor + 1,
     buf |-> SubSeq(inp.buf, 1, inp.cursor) \o <<c>> \o SubSeq(inp.buf, inp.cursor + 1, Len(inp.buf))]

\* LineInput::remove: the character before the cursor
remove(inp) ==
    IF inp.buf = <<>> \/ inp.cursor = 0
      THEN inp
      ELSE [cursor |-> inp.cursor - 1,
            buf |-> SubSeq(inp.buf, 1, inp.cursor - 1) \o SubSeq(inp.buf, inp.cursor + 1, Len(inp.buf))]

shift_left(inp, count) ==
    [inp EXCEPT !.cursor = IF @ >= count THEN @ - count ELSE 0]

RECURSIVE JumpLeftFrom(_, _)
JumpLeftFrom(buf, i) ==
    IF i > 0 /\ ~char_is_whitespace(buf[i]) THEN JumpLeftFrom(buf, i - 1) ELSE i

jump_left(inp) ==
    [inp EXCEPT !.cursor =
        JumpLeftFrom(inp.buf, Min(IF inp.cursor >= 1 THEN inp.cursor - 1 ELSE 0, Len(inp.buf)))]

RECURSIVE JumpRightFrom(_, _)
JumpRightFrom(buf, i) ==
    IF i < Len(buf) /\ ~char_is_whitespace(buf[i]) THEN JumpRightFrom(buf, i + 1) ELSE i

jump_right(inp) ==
    [inp EXCEPT !.cursor = JumpRightFrom(inp.buf, Min(inp.cursor + 1, Len(inp.buf)))]

shift_right(inp, count) ==
    [inp EXCEPT !.cursor = Min(@ + count, Len(inp.buf))]

get_buffer(inp) == inp.buf

\* InteractiveInput::default()
InteractiveInputDefault == [input |-> LineInputDefault, errors |-> <<>>]

\* BeatInput::clear_errors
clear_errors(bi) == [bi EXCEPT !.errors = <<>>]

\* BeatInput::set_errors
set_errors(bi, errs) == [bi EXCEPT !.errors = errs]

\* a key event: code, the character of a Char key, the CONTROL modifier, and
\* whether its kind is Press
Key(code, ch, ctrl, press) == [code |-> code, ch |-> ch, ctrl |-> ctrl, press |-> press]

\* InteractiveInput::handle_key_event: the editing keys
InputHandleKeyEvent(bi, key) ==
    CASE key.code = "Backspace" -> [bi EXCEPT !.input = remove(@)]
      [] key.code = "Char"      -> [bi EXCEPT !.input = add(@, key.ch)]
      [] key.code = "Left"      -> [bi EXCEPT !.input = IF key.ctrl THEN jump_left(@)
                                                          ELSE shift_left(@, 1)]
      [] key.code = "Right"     -> [bi EXCEPT !.input = IF key.ctrl THEN jump_right(@)
                                                          ELSE shift_right(@, 1)]
      [] OTHER                  -> bi

(***************************************************************************)
(* Application events (src/src/app.rs).                                    *)
(***************************************************************************)
InputReady(code) == [kind |-> "InputReady", code |-> code]

BeatOverwrite(code) == [kind |-> "BeatOverwrite", code |-> code]

ChangeView(v) == [kind |-> "ChangeView", view |-> v]

Plain(k) == [kind |-> k]

NoResponse == [kind |-> "None"]

\* the editor as a Component: Enter asks for the buffer to be played, every
\* other key edits
InteractiveInputComponent(bi, key) ==
    IF key.code = "Enter"
      THEN [resp |-> InputReady(get_buffer(bi.input)), bi |-> bi]
      ELSE [resp |-> NoResponse, bi |-> InputHandleKeyEvent(bi, key)]

\* BeatInput::set_buffer of the interactive editor
set_buffer(bi, code) == [bi EXCEPT !.input = from_str(code)]

(***************************************************************************)
(* Library table (src/src/app/library.rs, library/dynatable.rs).           *)
(***************************************************************************)
MAX_KEYS == 62

LowerAlpha ==
    <<"a", "b", "c", "d", "e", "f", "g", "h", "i", "j", "k", "l", "m",
      "n", "o", "p", "q", "r", "s", "t", "u", "v", "w", "x", "y", "z">>

UpperAlpha ==
    <<"A", "B", "C", "D", "E", "F", "G", "H", "I", "J", "K", "L", "M",
      "N", "O", "P", "Q", "R", "S", "T", "U", "V", "W", "X", "Y", "Z">>

\* key_char_to_index: Some(index) or None
key_char_to_index(c) ==
    IF IndexIn(DecDigits, c) > 0 THEN Some(IndexIn(DecDigits, c) - 1)
    ELSE IF IndexIn(LowerAlpha, c) > 0 THEN Some(IndexIn(LowerAlpha, c) + 9)
    ELSE IF IndexIn(UpperAlpha, c) > 0 THEN Some(IndexIn(UpperAlpha, c) + 35)
    ELSE None

\* the songs built into the binary, by their code
SONGS == << <<"t">>, <<"t", "*", "3">>, <<"t", ">", ">", "3">> >>

\* DynaTableState::default()
DynaTableStateDefault == [page |-> 0, selection |-> None, items_per_page |-> 0, total_items |-> 0]

total_pages(st) ==
    IF st.items_per_page = 0 THEN 0
    ELSE (st.total_items + st.items_per_page - 1) \div st.items_per_page

page_len(st) ==
    LET start == st.page * st.items_per_page
        end == Min(start + st.items_per_page, st.total_items)
    IN  IF end > start THEN end - start ELSE 0

\* mutation of sync: the selection is not clamped to the new page
sync_SelectionKept(st, usable_height, total_items, row_height) ==
    LET fits == IF row_height = 0 THEN 0 ELSE usable_height \div row_height
        ipp == IF fits < 1 THEN 1 ELSE IF fits > MAX_KEYS THEN MAX_KEYS ELSE fits
        s1 == [st EXCEPT !.total_items = total_items, !.items_per_page = ipp]
    IN  IF total_pages(s1) > 0 /\ s1.page >= total_pages(s1)
          THEN [s1 EXCEPT !.page = total_pages(s1) - 1] ELSE s1

\* DynaTableState::sync, run by every render of the table
sync(st, usable_height, total_items, row_height) ==
    LET fits == IF row_height = 0 THEN 0 ELSE usable_height \div row_height
        ipp == IF fits < 1 THEN 1 ELSE IF fits > MAX_KEYS THEN MAX_KEYS ELSE fits
        s1 == [st EXCEPT !.total_items = total_items, !.items_per_page = ipp]
        s2 == IF total_pages(s1) > 0 /\ s1.page >= total_pages(s1)
                THEN [s1 EXCEPT !.page = total_pages(s1) - 1] ELSE s1
    IN  IF s2.selection # None /\ s2.selection[1] >= page_len(s2)
          THEN [s2 EXCEPT !.selection = IF page_len(s2) > 0 THEN Some(page_len(s2) - 1) ELSE None]
          ELSE s2

selected_index(st) ==
    IF st.selection = None THEN None
    ELSE Some(st.page * st.items_per_page + st.selection[1])

select_by_key(st, c) ==
    LET k == key_char_to_index(c)
    IN  IF k # None /\ k[1] < page_len(st) THEN [st EXCEPT !.selection = k] ELSE st

select_next(st) ==
    IF page_len(st) = 0 THEN st
    ELSE [st EXCEPT !.selection =
            IF @ # None /\ @[1] + 1 < page_len(st) THEN Some(@[1] + 1) ELSE Some(0)]

select_prev(st) ==
    IF page_len(st) = 0 THEN st
    ELSE [st EXCEPT !.selection =
            IF @ # None /\ @[1] > 0 THEN Some(@[1] - 1) ELSE Some(page_len(st) - 1)]

next_page(st) ==
    IF st.page + 1 < total_pages(st)
      THEN [st EXCEPT !.page = @ + 1, !.selection = None] ELSE st

prev_page(st) ==
    IF st.page > 0 THEN [st EXCEPT !.page = @ - 1, !.selection = None] ELSE st

\* Library::default()
LibraryDefault == [table_state |-> DynaTableStateDefault]

OutOfBounds == [kind |-> "IndexOutOfBounds"]

NoSong == [kind |-> "NoSong"]

Song(code) == [kind |-> "Song", code |-> code]

\* Library::selected_song: None, the song, or the panic of SONGS[idx]
selected_song(lib) ==
    LET idx == selected_index(lib.table_state)
    IN  IF idx = None THEN NoSong
        ELSE IF idx[1] < Len(SONGS) THEN Song(SONGS[idx[1] + 1])
        ELSE OutOfBounds

\* Library::handle_key_event
LibraryHandleKeyEvent(lib, key) ==
    CASE key.code \in {"PageUp", "Left"} ->
           [resp |-> NoResponse, lib |-> [lib EXCEPT !.table_state = prev_page(@)]]
      [] key.code \in {"PageDown", "Right"} ->
           [resp |-> NoResponse, lib |-> [lib EXCEPT !.table_state = next_page(@)]]
      [] key.code = "Up" ->
           [resp |-> NoResponse, lib |-> [lib EXCEPT !.table_state = select_prev(@)]]
      [] key.code = "Down" ->
           [resp |-> NoResponse, lib |-> [lib EXCEPT !.table_state = select_next(@)]]
      [] key.code = "Enter" ->
           [resp |-> CASE selected_song(lib).kind = "NoSong" -> NoResponse
                       [] selected_song(lib).kind = "Song" ->
                            BeatOverwrite(selected_song(lib).code)
                       [] OTHER -> OutOfBounds,
            lib |-> lib]
      [] key.code = "Char" ->
           LET l2 == [lib EXCEPT !.table_state = select_by_key(@, key.ch)]
           IN  [resp |-> CASE selected_song(l2).kind = "NoSong" -> NoResponse
                           [] selected_song(l2).kind = "Song" ->
                                InputReady(selected_song(l2).code)
                           [] OTHER -> OutOfBounds,
                lib |-> l2]
      [] OTHER -> [resp |-> NoResponse, lib |-> lib]

\* <Library as Widget>::render: the table is synced to the drawn area
LibraryRender(lib, usable_height) ==
    [lib EXCEPT !.table_state = sync(@, usable_height, Len(SONGS), 1)]


(***************************************************************************)
(* Audio commands and the EventHandler's senders (src/src/audio.rs,        *)
(* src/src/event.rs).  A channel is the sequence of what was sent and not  *)
(* yet received.                                                           *)
(***************************************************************************)
Play == [kind |-> "Play"]

Pause == [kind |-> "Pause"]

NewBeat(beat) == [kind |-> "NewBeat", beat |-> beat]

SetVolume(vol) == [kind |-> "SetVolume", vol |-> vol]

\* Volume: tenths, 0 (MUTE) to 10 (MAX)
\* mutation of VolumeSet: no clamp
VolumeSet_Unclamped(val) == val

VolumeSet(val) == IF val < 0 THEN 0 ELSE IF val > 10 THEN 10 ELSE val

VolumeDefault == VolumeSet(5)

\* EventHandler::stream_play
\* mutation of stream_play: the command overtakes the ones already queued
stream_play_Overtakes(cmds) == <<Play>> \o cmds

stream_play(cmds) == Append(cmds, Play)

\* EventHandler::stream_pause
stream_pause(cmds) == Append(cmds, Pause)

\* EventHandler::set_volume
set_volume(cmds, vol) == Append(cmds, SetVolume(vol))

\* mutation of new_beat: a Beat is sent whether or not the compile succeeded
new_beat_SendsAnyway(cmds, code) ==
    Pick({ [ok |-> c.ok, errors |-> c.errors, cmds |-> Append(cmds, NewBeat(c.beat))]
           : c \in {BeatCompile(code)} })

\* EventHandler::new_beat: compile, then send NewBeat; Err(errors) sends nothing
new_beat(cmds, code) ==
    Pick({ IF c.ok THEN [ok |-> TRUE, errors |-> <<>>, cmds |-> Append(cmds, NewBeat(c.beat))]
                   ELSE [ok |-> FALSE, errors |-> c.errors, cmds |-> cmds]
           : c \in {BeatCompile(code)} })

\* EventHandler::enqueue_app_event: the event joins the UI's own queue
enqueue_app_event(queue, e) == Append(queue, [kind |-> "App", ev |-> e])

(***************************************************************************)
(* App (src/src/app.rs).  The App is a record of its fields; an operation   *)
(* returns the App it leaves and the commands channel it leaves.           *)
(***************************************************************************)
\* App::new
AppNew ==
    [running |-> TRUE, paused |-> TRUE, audio_state |-> "Unconnected",
     audio_vol |-> VolumeDefault, beat_input |-> InteractiveInputDefault,
     library |-> LibraryDefault, view |-> "Main", show_help |-> FALSE,
     panicked |-> FALSE, failed |-> FALSE]

Result(self, cmds) == [app |-> self, cmds |-> cmds]

\* mutation of toggle_playback: the command does not depend on paused
toggle_playback_AlwaysPlay(self, cmds) ==
    IF self.paused THEN Result([self EXCEPT !.paused = FALSE], stream_play(cmds))
                  ELSE Result([self EXCEPT !.paused = TRUE], stream_play(cmds))

\* App::toggle_playback
toggle_playback(self, cmds) ==
    IF self.paused THEN Result([self EXCEPT !.paused = FALSE], stream_play(cmds))
                  ELSE Result([self EXCEPT !.paused = TRUE], stream_pause(cmds))

\* App::set_volume
app_set_volume(self, cmds, vol) ==
    Result([self EXCEPT !.audio_vol = vol], set_volume(cmds, vol))

\* App::incr_volume
incr_volume(self, cmds) == app_set_volume(self, cmds, VolumeSet(self.audio_vol + 1))

\* App::decr_volume
decr_volume(self, cmds) == app_set_volume(self, cmds, VolumeSet(self.audio_vol - 1))

\* mutation of try_beat: a successful submit also empties the editor
try_beat_ClearsBuffer(self, cmds, code) ==
    Pick({ IF r.ok THEN Result([self EXCEPT !.beat_input = InteractiveInputDefault], r.cmds)
                   ELSE Result([self EXCEPT !.beat_input = set_errors(@, r.errors)], r.cmds)
           : r \in {new_beat(cmds, code)} })

\* App::try_beat
try_beat(self, cmds, code) ==
    Pick({ IF r.ok THEN Result([self EXCEPT !.beat_input = clear_errors(@)], r.cmds)
                   ELSE Result([self EXCEPT !.beat_input = set_errors(@, r.errors)], r.cmds)
           : r \in {new_beat(cmds, code)} })

\* mutation of quit: the request is dropped
quit_Ignored(self) == self

\* App::quit
quit(self) == [self EXCEPT !.running = FALSE]

\* App::update, the Event::App arm
HandleAppEvent(self, cmds, e) ==
    CASE e.kind = "InputReady"    -> try_beat(self, cmds, e.code)
      [] e.kind = "BeatOverwrite" ->
           Result([self EXCEPT !.beat_input = set_buffer(@, e.code)],
                  new_beat(cmds, e.code).cmds)
      [] e.kind = "VolumeUp"      -> incr_volume(self, cmds)
      [] e.kind = "VolumeDown"    -> decr_volume(self, cmds)
      [] e.kind = "Quit"          -> Result(quit(self), cmds)
      [] e.kind = "TogglePlay"    -> toggle_playback(self, cmds)
      [] e.kind = "ChangeView"    -> Result([self EXCEPT !.view = e.view], cmds)
      [] e.kind = "ToggleHelp"    -> Result([self EXCEPT !.show_help = ~@], cmds)
      [] e.kind = "ViewBack"      ->
           Result(IF self.show_help THEN [self EXCEPT !.show_help = FALSE]
                                   ELSE [self EXCEPT !.view = "Main"], cmds)
      [] OTHER                    -> Result(self, cmds)

\* mutation of GlobalKey: F2 and F5 are swapped
GlobalKey_F2F5Swapped(key) ==
    IF ~key.press THEN NoResponse
    ELSE CASE key.code = "F1"   -> Plain("ToggleHelp")
           [] key.code = "F2"   -> ChangeView("Library")
           [] key.code = "F3"   -> Plain("Quit")
           [] key.code = "F4"   -> Plain("TogglePlay")
           [] key.code = "F5"   -> ChangeView("BigLog")
           [] key.code = "Esc"  -> Plain("ViewBack")
           [] key.code = "Up"   -> Plain("VolumeUp")
           [] key.code = "Down" -> Plain("VolumeDown")
           [] OTHER             -> NoResponse

\* the global keys of App::handle_crossterm_event
GlobalKey(key) ==
    IF ~key.press THEN NoResponse
    ELSE CASE key.code = "F1"   -> Plain("ToggleHelp")
           [] key.code = "F2"   -> ChangeView("BigLog")
           [] key.code = "F3"   -> Plain("Quit")
           [] key.code = "F4"   -> Plain("TogglePlay")
           [] key.code = "F5"   -> ChangeView("Library")
           [] key.code = "Esc"  -> Plain("ViewBack")
           [] key.code = "Up"   -> Plain("VolumeUp")
           [] key.code = "Down" -> Plain("VolumeDown")
           [] OTHER             -> NoResponse

\* App::handle_crossterm_event: the response and the App it leaves; a
\* component sees only key presses (Component::handle_event)
handle_crossterm_event(self, key) ==
    IF GlobalKey(key) # NoResponse THEN [resp |-> GlobalKey(key), app |-> self]
    ELSE IF ~key.press THEN [resp |-> NoResponse, app |-> self]
    ELSE CASE self.view = "Main" ->
                Pick({ [resp |-> r.resp, app |-> [self EXCEPT !.beat_input = r.bi]]
                       : r \in {InteractiveInputComponent(self.beat_input, key)} })
           [] self.view = "Library" ->
                Pick({ [resp |-> r.resp, app |-> [self EXCEPT !.library = r.lib]]
                       : r \in {LibraryHandleKeyEvent(self.library, key)} })
           [] OTHER -> [resp |-> NoResponse, app |-> self]

\* the draw of App::run: only the library table keeps state across draws
Draw(self, usable_height) ==
    IF self.view = "Library"
      THEN [self EXCEPT !.library = LibraryRender(@, usable_height)]
      ELSE self

\* App::update on one event: the App, the commands channel and the event
\* queue it leaves
Update(self, cmds, queue, ev) ==
    CASE ev.kind = "App" ->
           Pick({ [app |-> r.app, cmds |-> r.cmds, queue |-> queue]
                  : r \in {HandleAppEvent(self, cmds, ev.ev)} })
      [] ev.kind = "Crossterm" ->
           Pick({ IF r.resp = OutOfBounds
                    THEN [app |-> [self EXCEPT !.running = FALSE, !.panicked = TRUE],
                          cmds |-> cmds, queue |-> queue]
                  ELSE IF r.resp = NoResponse
                    THEN [app |-> r.app, cmds |-> cmds, queue |-> queue]
                  ELSE [app |-> r.app, cmds |-> cmds,
                        queue |-> enqueue_app_event(queue, r.resp)]
                  : r \in {handle_crossterm_event(self, ev.key)} })
      [] ev.kind = "Audio" ->
           [app |-> [self EXCEPT !.audio_state = ev.status], cmds |-> cmds, queue |-> queue]
      [] OTHER -> [app |-> self, cmds |-> cmds, queue |-> queue]

(***************************************************************************)
(* The threads.  UI thread: App::run, one draw and one update per event.   *)
(* Terminal thread: EventThread::run forwards key events.  Audio thread    *)
(* (src/src/audio/pipewire.rs): the command callback on the main loop and  *)
(* on_process on the real-time data thread.                                *)
(***************************************************************************)
\* keys the terminal delivers in one run
MaxKeys == 6

\* key events waiting in the queue when the terminal delivers another
MaxPending == 2

\* commands the EventHandler's clients send in one run of SpecAudio
MaxSends == 4

\* process callbacks in one run
MaxBuffers == 3

\* frames in one audio buffer
MaxFrames == 2

\* rows the library table has room for
UsableHeights == {2}

\* rtrb::RingBuffer::<u8>::new(64000)
RingCapacity == 64000

\* Beat::default(): the silent beat the backends install at start
DefaultBeat == BeatOf(<<>>, 0)

NoSubmit == [path |-> "none"]

Press(code) == Key(code, "", FALSE, TRUE)

Char(c) == Key("Char", c, FALSE, TRUE)

\* the keys of Spec: typing, submitting, the library and back
SubmitKeys ==
    {Press("Enter"), Key("Enter", "", FALSE, FALSE), Char("0"), Char("@"),
     Press("Backspace"), Press("F5"), Press("Esc")}

\* the source the clients of SpecBackends submit
CursorCodes == {<<"t">>}

\* sources the clients of SpecAudio submit
AudioCodes == {<<"t">>, <<"3">>, <<"@">>}

Idle == [state |-> "idle", i |-> 0, n |-> 0, frames |-> <<>>, start_n |-> 1,
         start |-> [ver |-> 0, beat |-> DefaultBeat]]

InitUI ==
    /\ app = AppNew
    /\ term_queue = <<>>
    /\ keys_pressed = 0
    /\ last_submit = NoSubmit

InitAudio ==
    /\ cmd_queue = <<>>
    /\ BEAT = [ver |-> 0, beat |-> DefaultBeat]
    /\ stored = <<DefaultBeat>>
    /\ stream_active = FALSE
    /\ stream_volume = VolumeDefault
    /\ T_WRITE = 0
    /\ ring = <<>>
    /\ proc = Idle
    /\ sends = 0
    /\ buffers = 0
    /\ evals = <<>>

\* EventThread::run before its loop: last_tick = Instant::now()
\* (EventThread::new takes the file-watch receiver: "None" in interactive
\* mode, otherwise the state of its channel, "Open" or "Disconnected")
EventThreadNew(file_watch_receiver) ==
    [pc |-> "top", last_tick |-> 0, timeout |-> 0, poll_until |-> 0,
     file_watch_receiver |-> file_watch_receiver]

InitEvent ==
    /\ now = 0
    /\ event_thread = EventThreadNew("None")
    /\ stdin = <<>>
    /\ forwarded_due = 0

\* StreamStateTracker::new
StreamStateTrackerNew == [current |-> "Unconnected"]

\* wasapi::main has not entered its loop; no device
WasapiStart == [pc |-> "init", padding |-> 0, inits |-> 0]

\* the program as built for Linux: the WASAPI thread does not exist
InitWasapiIdle ==
    /\ backend = "pipewire"
    /\ state_tracker = StreamStateTrackerNew
    /\ reported = <<>>
    /\ wasapi = WasapiStart

\* Scope::new
ScopeNew == [t_read |-> 0, intermediate_queue |-> <<>>, chart_buffer |-> <<>>,
             t_chart_head |-> -1]

\* the t_sync timer is not running its callback
TimerIdle == [state |-> "idle", t_write |-> 0]

\* main(): the ring, the static T_PLAY and the Scope of App::new; the device
\* has played nothing
InitScope ==
    /\ capacity = RingCapacity
    /\ T_PLAY = 0
    /\ played = 0
    /\ timer = TimerIdle
    /\ scope = ScopeNew

(***************************************************************************)
(* Compiler harness: sources are typed character by character, compiled    *)
(* with Beat::compile, and the resulting Beat is evaluated over a set of   *)
(* sample indices (the loop of tests::check_parity).                       *)
(***************************************************************************)
\* longest source typed in SpecCompile
MaxSrcLen == 5

\* characters typed in SpecCompile
SrcAlphabet == {"t", "1", "+", "-", "?", ":", "(", ")", "@", " "}

\* sample indices evaluated
TSamples == {0, 3, 200, 65535}

NotCompiled == [done |-> FALSE]

NoOperands == [l |-> 0, r |-> 0]

NoOutcome == [of |-> "none"]

\* no operands drawn: the arithmetic harness is not in use
InitArithIdle ==
    /\ operands = NoOperands
    /\ outcome = NoOutcome

NoSamples == [of |-> "none"]

GenIdle == [need_operand |-> TRUE, ops |-> 0, open |-> 0, colons |-> 0]

InitCompile ==
    /\ src_in = <<>>
    /\ gen = GenIdle
    /\ compiled = NotCompiled
    /\ arena_out = <<>>
    /\ samples = NoSamples
    /\ lexer = LexerNew
    /\ tokens = <<>>

\* the state after main() has built the EventHandler and the App and the audio
\* thread has finished its start-up
Init ==
    /\ InitCompile
    /\ InitUI
    /\ InitAudio
    /\ InitScope
    /\ InitWasapiIdle
    /\ InitEvent
    /\ InitArithIdle

\* one more character of source text
TypeSource(c) ==
    /\ compiled = NotCompiled
    /\ samples = NoSamples
    /\ tokens = <<>>
    /\ Len(src_in) < MaxSrcLen
    /\ src_in' = Append(src_in, c)
    /\ UNCHANGED <<gen, compiled, arena_out, samples, lexer, tokens>>
    /\ UNCHANGED exceptCompile

\* Beat::compile(source): Parser::new(source, &mut nodes).parse(); arena_out
\* is the nodes vector the parser was given, as it is when parse() returns
CompileSource ==
    /\ compiled = NotCompiled
    /\ samples = NoSamples
    /\ \E r \in {BeatCompile(src_in)} :
          /\ compiled' = [done |-> TRUE, ok |-> r.ok, beat |-> r.beat, errors |-> r.errors]
          /\ arena_out' = r.nodes
    /\ UNCHANGED <<src_in, gen, samples, lexer, tokens>>
    /\ UNCHANGED exceptCompile

\* for t in ..: prog.eval(t)
EvalCompiled ==
    /\ compiled # NotCompiled
    /\ compiled.ok
    /\ samples = NoSamples
    /\ samples' = [of |-> "compiled", at |-> [t \in TSamples |-> BeatEval(compiled.beat, t)]]
    /\ UNCHANGED <<src_in, gen, compiled, arena_out, lexer, tokens>>
    /\ UNCHANGED exceptCompile

\* the silent default beat evaluated before any compile
EvalDefault ==
    /\ compiled = NotCompiled
    /\ src_in = <<>>
    /\ samples = NoSamples
    /\ samples' = [of |-> "default", at |-> [t \in TSamples |-> BeatEval(DefaultBeat, t)]]
    /\ UNCHANGED <<src_in, gen, compiled, arena_out, lexer, tokens>>
    /\ UNCHANGED exceptCompile

NextCompile ==
    \/ \E c \in SrcAlphabet : TypeSource(c)
    \/ CompileSource
    \/ EvalCompiled
    \/ EvalDefault

SpecCompile == Init /\ [][NextCompile]_vars

HasErrorNode(nodes) == \E i \in DOMAIN nodes : nodes[i].kind = "Error"

\* C6: Parser::parse fails exactly when at least one error was recorded during
\* the parse, root node or not, and then returns every recorded error in the
\* order recorded; a Beat is returned only with an empty error list.
C6_FailsOnAnyRecordedError ==
    compiled.done =>
        \A rec \in {RecordedErrors(src_in)} :
            /\ compiled.ok <=> rec = <<>>
            /\ compiled.errors = rec

\* C6 witness: a parse that produced a root and recorded two errors
C6_RootWithErrors ==
    /\ compiled.done
    /\ ~compiled.ok
    /\ parse_bp(src_in, ParserNew(src_in), 0).ok
    /\ Len(compiled.errors) >= 2

\* C7: the arena of a Beat returned by a successful Beat::compile holds no
\* ASTNode::Error.
C7_NoErrorNodeInBeat ==
    (compiled.done /\ compiled.ok) => ~HasErrorNode(compiled.beat.nodes)

\* C7 witness: a successful compile of an operator expression, after which the
\* Beat owns the whole arena
C7_CompiledBeat ==
    /\ compiled.done
    /\ compiled.ok
    /\ Len(compiled.beat.nodes) >= 3
    /\ compiled.beat.nodes = arena_out

C9_EmptyBeatEvalsToZero ==
    samples.of = "default" => \A t \in TSamples : samples.at[t] = Value(0)

(***************************************************************************)
(* Expression generator: well-formed expressions are built token by token  *)
(* (operand, operator, operand, ...) and compared with the reference.      *)
(***************************************************************************)
\* most operators (prefix, binary, ternary, parenthesis pair) in a generated
\* expression
MaxOps == 2

Atoms == {<<"t">>, <<"3">>}

BinaryLexemes ==
    [LogOr |-> <<"|", "|">>, LogAnd |-> <<"&", "&">>, Or |-> <<"|">>,
     BitXor |-> <<"^">>, And |-> <<"&">>, Eq |-> <<"=", "=">>,
     Ne |-> <<"!", "=">>, Lt |-> <<"<">>, Gt |-> <<">">>,
     Le |-> <<"<", "=">>, Ge |-> <<">", "=">>, Lsh |-> <<"<", "<">>,
     Rsh |-> <<">", ">">>, Plus |-> <<"+">>, Minus |-> <<"-">>,
     Mul |-> <<"*">>, Div |-> <<"/">>, Mod |-> <<"%">>]

PrefixLexemes == [Minus |-> <<"-">>, Plus |-> <<"+">>, LogNot |-> <<"!">>, BitNot |-> <<"~">>]

Generating == compiled = NotCompiled /\ samples = NoSamples

GenAtom(a) ==
    /\ Generating
    /\ gen.need_operand
    /\ src_in' = src_in \o a
    /\ gen' = [gen EXCEPT !.need_operand = FALSE]
    /\ UNCHANGED <<compiled, arena_out, samples, lexer, tokens>>
    /\ UNCHANGED exceptCompile

GenPrefix(o) ==
    /\ Generating
    /\ gen.need_operand
    /\ gen.ops < MaxOps
    /\ src_in' = src_in \o PrefixLexemes[o]
    /\ gen' = [gen EXCEPT !.ops = @ + 1]
    /\ UNCHANGED <<compiled, arena_out, samples, lexer, tokens>>
    /\ UNCHANGED exceptCompile

GenOpen ==
    /\ Generating
    /\ gen.need_operand
    /\ gen.ops < MaxOps
    /\ src_in' = Append(src_in, "(")
    /\ gen' = [gen EXCEPT !.ops = @ + 1, !.open = @ + 1]
    /\ UNCHANGED <<compiled, arena_out, samples, lexer, tokens>>
    /\ UNCHANGED exceptCompile

GenClose ==
    /\ Generating
    /\ ~gen.need_operand
    /\ gen.open > 0
    /\ src_in' = Append(src_in, ")")
    /\ gen' = [gen EXCEPT !.open = @ - 1]
    /\ UNCHANGED <<compiled, arena_out, samples, lexer, tokens>>
    /\ UNCHANGED exceptCompile

GenBinary(o) ==
    /\ Generating
    /\ ~gen.need_operand
    /\ gen.ops < MaxOps
    /\ src_in' = src_in \o BinaryLexemes[o]
    /\ gen' = [gen EXCEPT !.ops = @ + 1, !.need_operand = TRUE]
    /\ UNCHANGED <<compiled, arena_out, samples, lexer, tokens>>
    /\ UNCHANGED exceptCompile

GenQuestion ==
    /\ Generating
    /\ ~gen.need_operand
    /\ gen.ops < MaxOps
    /\ src_in' = Append(src_in, "?")
    /\ gen' = [gen EXCEPT !.ops = @ + 1, !.need_operand = TRUE, !.colons = @ + 1]
    /\ UNCHANGED <<compiled, arena_out, samples, lexer, tokens>>
    /\ UNCHANGED exceptCompile

GenColon ==
    /\ Generating
    /\ ~gen.need_operand
    /\ gen.colons > 0
    /\ src_in' = Append(src_in, ":")
    /\ gen' = [gen EXCEPT !.need_operand = TRUE, !.colons = @ - 1]
    /\ UNCHANGED <<compiled, arena_out, samples, lexer, tokens>>
    /\ UNCHANGED exceptCompile

NextParity ==
    \/ \E a \in Atoms : GenAtom(a)
    \/ \E o \in DOMAIN PrefixLexemes : GenPrefix(o)
    \/ GenOpen
    \/ GenClose
    \/ \E o \in DOMAIN BinaryLexemes : GenBinary(o)
    \/ GenQuestion
    \/ GenColon
    \/ CompileSource
    \/ EvalCompiled

SpecParity == Init /\ [][NextParity]_vars

PressKey(k) ==
    /\ keys_pressed < MaxKeys
    /\ Len(term_queue) < MaxPending
    /\ term_queue' = Append(term_queue, [kind |-> "Crossterm", key |-> k])
    /\ keys_pressed' = keys_pressed + 1
    /\ UNCHANGED <<app, last_submit, cmd_queue>>
    /\ UNCHANGED exceptUI

\* what new_beat returned when the event is a submit
SubmitOf(ev, cmds) ==
    IF ev.kind = "App" /\ ev.ev.kind \in {"InputReady", "BeatOverwrite"}
      THEN Pick({ [path |-> ev.ev.kind, code |-> ev.ev.code,
                   ok |-> r.ok, errors |-> r.errors]
                  : r \in {new_beat(cmds, ev.ev.code)} })
      ELSE NoSubmit

\* the holders of a Sender of the term channel: the EventHandler itself
\* (its term_sender field), the event thread while it runs, and the audio
\* thread while it runs
TermSenders ==
    {"EventHandler"}
      \cup (IF event_thread.pc \in {"stopped", "panicked"} THEN {} ELSE {"EventThread"})
      \cup (IF backend = "wasapi" /\ wasapi.pc \in {"exited", "panicked"}
              THEN {} ELSE {"audio"})

\* EventHandler::next, mpsc::Receiver::recv: the oldest event; an error when
\* the channel is empty and every Sender is dropped; otherwise it blocks
recv(queue, senders) ==
    IF queue # <<>> THEN [kind |-> "Ok", event |-> Head(queue)]
    ELSE IF senders = {} THEN [kind |-> "Err"]
    ELSE [kind |-> "Blocked"]

\* one turn of App::run: draw, then update on the next event; update
\* returns the error of EventHandler::next and run returns it
AppUpdate ==
    /\ app.running
    /\ \E got \in {recv(term_queue, TermSenders)} :
         /\ got.kind # "Blocked"
         /\ \E h \in UsableHeights :
              IF got.kind = "Err"
                THEN /\ app' = [Draw(app, h) EXCEPT !.running = FALSE, !.failed = TRUE]
                     /\ UNCHANGED <<cmd_queue, term_queue>>
                     /\ last_submit' = NoSubmit
                ELSE /\ \E r \in {Update(Draw(app, h), cmd_queue, Tail(term_queue),
                                         got.event)} :
                          /\ app' = r.app
                          /\ cmd_queue' = r.cmds
                          /\ term_queue' = r.queue
                     /\ last_submit' = SubmitOf(got.event, cmd_queue)
    /\ UNCHANGED keys_pressed
    /\ UNCHANGED exceptUI

\* mutation of StoreBeat: only the first store replaces the Arc
StoreBeat_FirstOnly(cell, beat) ==
    IF cell.ver = 0 THEN [ver |-> 1, beat |-> beat] ELSE cell

\* ArcSwap::store of a new Arc<Beat>
StoreBeat(cell, beat) == [ver |-> cell.ver + 1, beat |-> beat]

\* the command callback attached to command_rx
AudioCommandHandler ==
    /\ backend = "pipewire"
    /\ cmd_queue # <<>>
    /\ cmd_queue' = Tail(cmd_queue)
    /\ LET msg == Head(cmd_queue)
       IN  /\ stream_active' = CASE msg.kind = "Play"  -> TRUE
                                 [] msg.kind = "Pause" -> FALSE
                                 [] OTHER              -> stream_active
           /\ BEAT' = IF msg.kind = "NewBeat" THEN StoreBeat(BEAT, msg.beat) ELSE BEAT
           /\ stored' = IF msg.kind = "NewBeat" THEN Append(stored, msg.beat) ELSE stored
           /\ stream_volume' = IF msg.kind = "SetVolume" THEN msg.vol ELSE stream_volume
    /\ UNCHANGED <<T_WRITE, ring, evals, proc, sends, buffers>>
    /\ UNCHANGED exceptAudio

NextUI ==
    \/ \E k \in SubmitKeys : PressKey(k)
    \/ AppUpdate
    \/ AudioCommandHandler

Spec == Init /\ [][NextUI]_vars

\* a submit event is next and the UI is running
SubmitAtHead ==
    /\ app.running
    /\ term_queue # <<>>
    /\ Head(term_queue).kind = "App"
    /\ Head(term_queue).ev.kind \in {"InputReady", "BeatOverwrite"}

\* the step is a turn of the UI thread
UIStep == term_queue' # term_queue /\ keys_pressed' = keys_pressed

\* C3: when the UI handles a submit whose source does not compile, new_beat
\* returns the compiler's non-empty error list, no command is sent and the
\* active beat stays as it was.
C3_FailedSubmitSendsNothing ==
    [][(SubmitAtHead /\ UIStep /\ ~BeatCompile(Head(term_queue).ev.code).ok) =>
          /\ cmd_queue' = cmd_queue
          /\ BEAT' = BEAT
          /\ ~last_submit'.ok
          /\ last_submit'.errors = BeatCompile(Head(term_queue).ev.code).errors
          /\ last_submit'.errors # <<>>]_vars

\* C3 witness: a submit has failed while a submitted beat was active
C3_FailedSubmitAfterBeat ==
    /\ last_submit.path # "none"
    /\ ~last_submit.ok
    /\ BEAT.ver >= 1
    /\ cmd_queue = <<>>

\* C4 as stated: after a submit whose source compiled, whichever path issued
\* it, the editor's error list is empty.
C4_SuccessfulSubmitClearsErrors ==
    (last_submit.path # "none" /\ last_submit.ok) => app.beat_input.errors = <<>>

ClientNewBeat(code) ==
    /\ sends < MaxSends
    /\ sends' = sends + 1
    /\ cmd_queue' = new_beat(cmd_queue, code).cmds
    /\ UNCHANGED <<BEAT, stored, stream_active, stream_volume, T_WRITE, ring, evals, proc, buffers>>
    /\ UNCHANGED exceptAudio

\* EventHandler::stream_play called by a client
ClientPlay ==
    /\ sends < MaxSends
    /\ sends' = sends + 1
    /\ cmd_queue' = stream_play(cmd_queue)
    /\ UNCHANGED <<BEAT, stored, stream_active, stream_volume, T_WRITE, ring, evals, proc, buffers>>
    /\ UNCHANGED exceptAudio

\* EventHandler::stream_pause called by a client
ClientPause ==
    /\ sends < MaxSends
    /\ sends' = sends + 1
    /\ cmd_queue' = stream_pause(cmd_queue)
    /\ UNCHANGED <<BEAT, stored, stream_active, stream_volume, T_WRITE, ring, evals, proc, buffers>>
    /\ UNCHANGED exceptAudio

\* on_process is entered with a buffer of n frames; start and start_n record
\* the BEAT cell and the number of stores at that moment
ProcessStart(n) ==
    /\ backend = "pipewire"
    /\ stream_active
    /\ proc.state = "idle"
    /\ buffers < MaxBuffers
    /\ buffers' = buffers + 1
    /\ proc' = [state |-> "filling", i |-> 0, n |-> n, frames |-> <<>>,
                start_n |-> Len(stored), start |-> BEAT]
    /\ UNCHANGED <<cmd_queue, BEAT, stored, stream_active, stream_volume, T_WRITE, ring, evals, sends>>
    /\ UNCHANGED exceptAudio

\* mutation of is_full: the ring never reports full
is_full_Never(rb, cap) == FALSE

\* rtrb::Producer::is_full
is_full(rb, cap) == Len(rb) >= cap

\* mutation of push: a push on a full ring overwrites the newest sample
push_Overwrites(rb, cap, v) ==
    IF is_full(rb, cap) THEN Append(SubSeq(rb, 1, Len(rb) - 1), v) ELSE Append(rb, v)

\* if !state.producer.is_full() { let _ = state.producer.push(val); }
push(rb, cap, v) == IF is_full(rb, cap) THEN rb ELSE Append(rb, v)

\* mutation of FrameBeat: the Beat is loaded once, when the callback starts
FrameBeat_PerBuffer(pr, cell) == pr.start

\* the Beat a frame is evaluated with: state.beat.load() inside the frame loop
FrameBeat(pr, cell) == cell

\* state.t_write.load(Relaxed) + 1 on i32: at INT32_MAX the addition panics
\* when the build checks overflow (the dev profile) and wraps when it does not
\* (the release profile)
load_plus_one(t) == IF t < INT32_MAX THEN {Value(t + 1)} ELSE {Panicked, Value(INT32_MIN)}

\* one turn of the frame loop of on_process: evaluate at T_WRITE, advance
\* T_WRITE, write the frame, push the sample to the ring if it is not full; an
\* index outside the arena panics and the callback never completes. evals
\* records the call: its t, its sample, and what producer.is_full() returned
ProcessFrame ==
    /\ backend = "pipewire"
    /\ proc.state = "filling"
    /\ proc.i < proc.n
    /\ \E b \in {FrameBeat(proc, BEAT)} :
         \E val \in {BeatEval(b.beat, T_WRITE)} :
            IF val.panic
              THEN /\ proc' = [proc EXCEPT !.state = "panicked"]
                   /\ evals' = Append(evals, [t |-> T_WRITE, panic |-> TRUE, val |-> 0,
                                              full |-> FALSE])
                   /\ UNCHANGED <<T_WRITE, ring>>
              ELSE \E next \in load_plus_one(T_WRITE) :
                     IF next.panic
                       THEN /\ proc' = [proc EXCEPT !.state = "panicked"]
                            /\ evals' = Append(evals, [t |-> T_WRITE, panic |-> FALSE,
                                                       val |-> val.v, full |-> FALSE])
                            /\ UNCHANGED <<T_WRITE, ring>>
                       ELSE /\ T_WRITE' = next.v
                            /\ ring' = push(ring, capacity, val.v)
                            /\ evals' = Append(evals, [t |-> T_WRITE, panic |-> FALSE,
                                                       val |-> val.v,
                                                       full |-> is_full(ring, capacity)])
                            /\ proc' = [proc EXCEPT
                                          !.i = @ + 1,
                                          !.frames = Append(@, [t |-> T_WRITE, val |-> val.v,
                                                                ver |-> b.ver, n |-> Len(stored)])]
    /\ UNCHANGED <<cmd_queue, BEAT, stored, stream_active, stream_volume, sends, buffers>>
    /\ UNCHANGED exceptAudio

\* the frame loop is over: the chunk is sized and the buffer handed back
ProcessEnd ==
    /\ backend = "pipewire"
    /\ proc.state = "filling"
    /\ proc.i = proc.n
    /\ proc' = [proc EXCEPT !.state = "idle"]
    /\ UNCHANGED <<cmd_queue, BEAT, stored, stream_active, stream_volume, T_WRITE, ring, evals,
                   sends, buffers>>
    /\ UNCHANGED exceptAudio

NextAudio ==
    \/ \E code \in AudioCodes : ClientNewBeat(code)
    \/ ClientPlay
    \/ ClientPause
    \/ AudioCommandHandler
    \/ \E n \in 0..MaxFrames : ProcessStart(n)
    \/ ProcessFrame
    \/ ProcessEnd

SpecAudio == Init /\ [][NextAudio]_vars

\* C1: every frame of the buffer being filled (or last filled) was evaluated,
\* at its own t, with a beat that had been stored when the frame was
\* produced, and that beat is the one last stored when the buffer started or
\* one stored after it, never an older one.
C1_FramesUseStoredBeatNotOlder ==
    \A k \in DOMAIN proc.frames :
        \A f \in {proc.frames[k]} :
            /\ f.ver + 1 >= proc.start_n
            /\ f.ver + 1 <= f.n
            /\ f.n <= Len(stored)
            /\ BeatEval(stored[f.ver + 1], f.t) = Value(f.val)

\* C1 witness: a buffer that started after two NewBeat stores has produced a
\* frame
C1_BufferAfterStores ==
    /\ proc.start_n >= 3
    /\ proc.frames # <<>>

EdgeValues == {INT32_MIN, INT32_MIN + 1, -256, -7, -2, -1, 0, 1, 2, 3, 7, 255,
               INT32_MAX - 1, INT32_MAX}

InitArith ==
    /\ InitCompile
    /\ InitUI
    /\ InitAudio
    /\ InitScope
    /\ InitWasapiIdle
    /\ InitEvent
    /\ operands \in [l : EdgeValues, r : EdgeValues]
    /\ outcome = NoOutcome

\* the Beat whose root applies op to the two literals
BinaryBeat(op, l, r) == BeatOf(<<Literal(l), Literal(r), Binary(op, 0, 1)>>, 2)

\* eval_node of l / r
EvalDiv ==
    /\ outcome' = [of |-> "Div",
                   res |-> eval_node(BinaryBeat("Div", operands.l, operands.r), 2, 0)]
    /\ UNCHANGED operands
    /\ UNCHANGED exceptArith

\* eval_node of l % r
EvalMod ==
    /\ outcome' = [of |-> "Mod",
                   res |-> eval_node(BinaryBeat("Mod", operands.l, operands.r), 2, 0)]
    /\ UNCHANGED operands
    /\ UNCHANGED exceptArith

\* Beat::compile("t/0") and the evaluation of its root at t = l
EvalDivByZeroSource ==
    /\ \E c \in {BeatCompile(<<"t", "/", "0">>)} :
          outcome' = [of |-> "t/0", ok |-> c.ok,
                      res |-> IF c.ok THEN eval_node(c.beat, c.beat.root, operands.l)
                              ELSE Panicked,
                      sample |-> IF c.ok THEN BeatEval(c.beat, operands.l) ELSE Panicked]
    /\ UNCHANGED operands
    /\ UNCHANGED exceptArith

NextArith ==
    \/ EvalDiv
    \/ EvalMod
    \/ EvalDivByZeroSource

SpecArith == InitArith /\ [][NextArith]_vars

\* q and m are the quotient and remainder of l by r, truncated toward zero
\* (r is neither 0 nor, for l = INT32_MIN, -1)
Truncating(l, r, q, m) ==
    /\ q * r + m = l
    /\ r > 0 => (m > -r /\ m < r)
    /\ r < 0 => (m > r /\ -m > r)
    /\ m = 0 \/ (m < 0) = (l < 0)

\* C11: for all 32-bit l and r, l / r and l % r evaluate without failing to a
\* 32-bit value: r = 0 gives 0, INT32_MIN / -1 wraps to INT32_MIN (remainder
\* 0), every other pair gives the quotient truncated toward zero and the
\* remainder with the sign of l; and "t/0" compiles and is 0 at every t
C11_DivModTotal ==
    LET l == operands.l
        r == operands.r
        wraps == l = INT32_MIN /\ r = -1
    IN  /\ outcome.of \in {"Div", "Mod"} =>
              /\ ~outcome.res.panic
              /\ outcome.res.v \in INT32_MIN..INT32_MAX
              /\ r = 0 => outcome.res.v = 0
        /\ outcome.of = "Div" =>
              /\ wraps => outcome.res.v = INT32_MIN
              /\ (r # 0 /\ ~wraps) =>
                    Truncating(l, r, outcome.res.v, l - outcome.res.v * r)
        /\ outcome.of = "Mod" =>
              /\ wraps => outcome.res.v = 0
              /\ (r # 0 /\ ~wraps) =>
                    \E q \in {wrapping_div(l, r)} :
                        Truncating(l, r, q, outcome.res.v)
        /\ outcome.of = "t/0" =>
              /\ outcome.ok
              /\ outcome.res = Value(0)
              /\ outcome.sample = Value(0)

\* INT32_MIN / -1 has been evaluated
C11_MinByMinusOne ==
    /\ outcome.of = "Div"
    /\ operands = [l |-> INT32_MIN, r |-> -1]
    /\ outcome.res = Value(INT32_MIN)

(***************************************************************************)
(* The play cursor (src/src/audio/pipewire.rs): the t_sync timer runs on   *)
(* the main loop while on_process runs on the data thread. The device is   *)
(* the environment: it plays, one by one, the frames of the buffers that   *)
(* on_process has handed back, and pw_stream_get_time_n reports the frames *)
(* handed back and not yet played.                                         *)
(***************************************************************************)
\* frames in buffers that on_process has handed back
Handed == IF proc.state = "idle" THEN T_WRITE ELSE T_WRITE - proc.i

\* the active stream plays one more frame
DevicePlays ==
    /\ backend = "pipewire"
    /\ stream_active
    /\ played < Handed
    /\ played' = played + 1
    /\ UNCHANGED <<capacity, T_PLAY, timer, scope>>
    /\ UNCHANGED <<cmd_queue, audioVars>>
    /\ UNCHANGED exceptScope

\* what pw_stream_get_time_n fills in
pw_stream_get_time_n == [queued |-> Handed - played, buffered |-> 0]

\* mutation of estimate_play_head: the pending frames are added
estimate_play_head_Ahead(time, t_write) == t_write + (time.queued + time.buffered)

\* estimate_play_head; queued and buffered are far below 2^31, so the casts
\* to i32 keep their values
estimate_play_head(time, t_write) == t_write - (time.queued + time.buffered)

\* the timer callback evaluates its argument ts.t_write.load()
TimerLoad ==
    /\ backend = "pipewire"
    /\ timer.state = "idle"
    /\ timer' = [state |-> "loaded", t_write |-> T_WRITE]
    /\ UNCHANGED <<capacity, T_PLAY, played, scope>>
    /\ UNCHANGED <<cmd_queue, audioVars>>
    /\ UNCHANGED exceptScope

\* the timer callback calls estimate_play_head and stores the head in T_PLAY
TimerStore ==
    /\ backend = "pipewire"
    /\ timer.state = "loaded"
    /\ T_PLAY' = estimate_play_head(pw_stream_get_time_n, timer.t_write)
    /\ timer' = TimerIdle
    /\ UNCHANGED <<capacity, played, scope>>
    /\ UNCHANGED <<cmd_queue, audioVars>>
    /\ UNCHANGED exceptScope

\* C12: in every reachable state t_write >= t_play, whatever the interleaving
\* of process callbacks (render passes on WASAPI), play-cursor updates and
\* command handling; the value the PipeWire timer has loaded is never ahead
\* of t_write either.
C12_WriteAheadOfPlay ==
    /\ T_WRITE >= T_PLAY
    /\ timer.state = "loaded" => T_WRITE >= timer.t_write

\* C12 witness: after two callbacks the cursor has been stored behind t_write
C12_CursorBehindWriter ==
    /\ buffers >= 2
    /\ T_PLAY > 0
    /\ T_WRITE > T_PLAY

\* C14 as stated: no step moves T_PLAY backwards.
C14_PlayCursorMonotonic == [][T_PLAY' >= T_PLAY]_vars

(***************************************************************************)
(* The WASAPI backend (src/src/audio/wasapi.rs): one thread initialises    *)
(* the device, drains the command channel, updates the play cursor and     *)
(* renders, and starts over when the device is invalidated. The device is  *)
(* the environment: initialisation and the render calls succeed or fail,   *)
(* and a started device plays the frames of its buffer one by one.         *)
(***************************************************************************)
\* attempts of Device::init
MaxInits == 3

\* Device::bufsize: the frames the device's buffer holds
bufsize == MaxFrames

\* StreamStateTracker::set: a StateChange is sent only when the status changes
tracker_set(st, sent, new_status) ==
    IF st.current # new_status
      THEN [tracker |-> [current |-> new_status], sent |-> Append(sent, new_status)]
      ELSE [tracker |-> st, sent |-> sent]

\* mutation of is_active: every status counts as streaming
is_active_Always(st) == TRUE

\* StreamStateTracker::is_active
is_active(st) == st.current = "Streaming"

\* mutation of WasapiInit: every attempt starts with a fresh command channel
WasapiInit_NewChannel(ok) ==
    /\ backend = "wasapi"
    /\ wasapi.pc = "init"
    /\ wasapi.inits < MaxInits
    /\ \E c \in {tracker_set(state_tracker, reported, "Connecting")} :
         \E d \in {tracker_set(c.tracker, c.sent, IF ok THEN "Paused" ELSE "Error")} :
            /\ state_tracker' = d.tracker
            /\ reported' = d.sent
    /\ wasapi' = [pc |-> IF ok THEN "commands" ELSE "init", padding |-> 0,
                  inits |-> wasapi.inits + 1]
    /\ stream_active' = FALSE
    /\ cmd_queue' = <<>>
    /\ UNCHANGED <<BEAT, stored, stream_volume, T_WRITE, ring, evals, proc, sends,
                   buffers, backend>>
    /\ UNCHANGED scopeVars
    /\ UNCHANGED exceptWasapi

\* one iteration of the outer loop up to the inner loop: set(Connecting),
\* Device::init, then set(Paused) or set(Error) and the one-second sleep
WasapiInit(ok) ==
    /\ backend = "wasapi"
    /\ wasapi.pc = "init"
    /\ wasapi.inits < MaxInits
    /\ \E c \in {tracker_set(state_tracker, reported, "Connecting")} :
         \E d \in {tracker_set(c.tracker, c.sent, IF ok THEN "Paused" ELSE "Error")} :
            /\ state_tracker' = d.tracker
            /\ reported' = d.sent
    /\ wasapi' = [pc |-> IF ok THEN "commands" ELSE "init", padding |-> 0,
                  inits |-> wasapi.inits + 1]
    /\ stream_active' = FALSE
    /\ UNCHANGED <<cmd_queue, BEAT, stored, stream_volume, T_WRITE, ring, evals, proc, sends,
                   buffers, backend>>
    /\ UNCHANGED scopeVars
    /\ UNCHANGED exceptWasapi

\* command_rx.try_recv() returned Ok(cmd): the match on the command
WasapiCommand ==
    /\ backend = "wasapi"
    /\ wasapi.pc = "commands"
    /\ cmd_queue # <<>>
    /\ cmd_queue' = Tail(cmd_queue)
    /\ LET msg == Head(cmd_queue)
           starts == msg.kind = "Play" /\ ~is_active(state_tracker)
           stops == msg.kind = "Pause" /\ is_active(state_tracker)
       IN  /\ stream_active' = IF starts THEN TRUE ELSE IF stops THEN FALSE ELSE stream_active
           /\ \E d \in {IF starts THEN tracker_set(state_tracker, reported, "Streaming")
                        ELSE IF stops THEN tracker_set(state_tracker, reported, "Paused")
                        ELSE [tracker |-> state_tracker, sent |-> reported]} :
                 /\ state_tracker' = d.tracker
                 /\ reported' = d.sent
           /\ BEAT' = IF msg.kind = "NewBeat" THEN StoreBeat(BEAT, msg.beat) ELSE BEAT
           /\ stored' = IF msg.kind = "NewBeat" THEN Append(stored, msg.beat) ELSE stored
           /\ stream_volume' = IF msg.kind = "SetVolume" THEN msg.vol ELSE stream_volume
    /\ UNCHANGED <<T_WRITE, ring, evals, proc, sends, buffers, backend, wasapi>>
    /\ UNCHANGED scopeVars
    /\ UNCHANGED exceptWasapi

\* mutation of fetch_add: the counter is left where it was
fetch_add_Stuck(t) == t

\* the counter after T_WRITE.fetch_add(1, Relaxed), which returns t; the
\* atomic addition wraps around on overflow
fetch_add(t) == IF t = INT32_MAX THEN INT32_MIN ELSE t + 1

RECURSIVE render(_, _)
\* the frame loop of the render closure over n frames: T_WRITE.fetch_add(1),
\* eval at the old value, write the frame, push to the ring if it is not full
render(n, st) ==
    IF n = 0 \/ st.panic THEN st
    ELSE Pick({ IF val.panic
                  THEN [st EXCEPT !.panic = TRUE,
                                  !.t_write = fetch_add(@),
                                  !.evals = Append(@, [t |-> st.t_write, panic |-> TRUE,
                                                       val |-> 0, full |-> FALSE])]
                  ELSE render(n - 1,
                              [st EXCEPT !.t_write = fetch_add(@),
                                         !.ring = push(@, st.cap, val.v),
                                         !.evals = Append(@, [t |-> st.t_write, panic |-> FALSE,
                                                              val |-> val.v,
                                                              full |-> is_full(st.ring, st.cap)])])
                : val \in {BeatEval(st.beat, st.t_write)} })

\* what the device calls of one pass do: nothing fails; GetCurrentPadding or
\* GetBuffer fails, or ReleaseBuffer fails, with AUDCLNT_E_DEVICE_INVALIDATED
\* or with another error
RenderOutcomes == {"ok", "invalidated", "invalidated_release", "error", "error_release"}

\* the t_sync of one pass: not due; due; due with GetCurrentPadding failing
SyncOutcomes == {"none", "padding", "failed"}

\* Device::estimate_play_head
wasapi_estimate_play_head(padding, t_write) == t_write - padding

\* try_recv() returned Empty: the rest of one iteration of the inner loop
WasapiPass(t_sync, res) ==
    /\ backend = "wasapi"
    /\ wasapi.pc = "commands"
    /\ cmd_queue = <<>>
    /\ T_PLAY' = CASE t_sync = "padding" -> wasapi_estimate_play_head(wasapi.padding, T_WRITE)
                   [] t_sync = "failed"  -> wasapi_estimate_play_head(0, T_WRITE)
                   [] OTHER            -> T_PLAY
    /\ IF ~is_active(state_tracker)
         THEN /\ res = "ok"
              /\ UNCHANGED <<T_WRITE, ring, evals, buffers, state_tracker, reported, wasapi,
                             stream_active>>
         ELSE /\ buffers < MaxBuffers
              /\ buffers' = buffers + 1
              /\ LET frames_available ==
                         IF res \in {"invalidated", "error"} \/ wasapi.padding >= bufsize
                           THEN 0 ELSE bufsize - wasapi.padding
                     failed == res # "ok" /\
                               (frames_available > 0 \/ res \in {"invalidated", "error"})
                 IN  \E r \in {render(frames_available,
                                      [t_write |-> T_WRITE, ring |-> ring, evals |-> evals,
                                       cap |-> capacity, beat |-> BEAT.beat, panic |-> FALSE])} :
                        /\ T_WRITE' = r.t_write
                        /\ ring' = r.ring
                        /\ evals' = r.evals
                        /\ IF r.panic
                             THEN /\ wasapi' = [wasapi EXCEPT !.pc = "panicked"]
                                  /\ UNCHANGED <<state_tracker, reported, stream_active>>
                           ELSE IF ~failed
                             THEN /\ wasapi' = [wasapi EXCEPT !.padding = @ + frames_available]
                                  /\ UNCHANGED <<state_tracker, reported, stream_active>>
                           ELSE \E d \in {tracker_set(state_tracker, reported,
                                            IF res \in {"invalidated", "invalidated_release"}
                                              THEN "Connecting" ELSE "Error")} :
                                  /\ state_tracker' = d.tracker
                                  /\ reported' = d.sent
                                  /\ wasapi' = [wasapi EXCEPT
                                       !.pc = IF d.tracker.current = "Connecting"
                                                THEN "init" ELSE "exited"]
                                  /\ stream_active' =
                                       IF d.tracker.current = "Connecting" THEN FALSE
                                       ELSE stream_active
    /\ UNCHANGED <<cmd_queue, BEAT, stored, stream_volume, proc, sends, backend>>
    /\ UNCHANGED <<capacity, played, timer, scope>>
    /\ UNCHANGED exceptWasapi

\* the started device plays one more frame of its buffer
WasapiDevicePlays ==
    /\ backend = "wasapi"
    /\ wasapi.pc = "commands"
    /\ stream_active
    /\ wasapi.padding > 0
    /\ wasapi' = [wasapi EXCEPT !.padding = @ - 1]
    /\ UNCHANGED <<cmd_queue, audioVars, backend, state_tracker, reported>>
    /\ UNCHANGED scopeVars
    /\ UNCHANGED exceptWasapi

\* the program as built for either backend
InitBackends ==
    /\ InitCompile
    /\ InitUI
    /\ InitAudio
    /\ InitScope
    /\ InitArithIdle
    /\ InitEvent
    /\ backend \in {"pipewire", "wasapi"}
    /\ state_tracker = StreamStateTrackerNew
    /\ reported = <<>>
    /\ wasapi = WasapiStart

NextBackends ==
    \/ \E code \in CursorCodes : ClientNewBeat(code)
    \/ ClientPlay
    \/ ClientPause
    \/ AudioCommandHandler
    \/ \E n \in 0..MaxFrames : ProcessStart(n)
    \/ ProcessFrame
    \/ ProcessEnd
    \/ DevicePlays
    \/ TimerLoad
    \/ TimerStore
    \/ \E ok \in BOOLEAN : WasapiInit(ok)
    \/ WasapiCommand
    \/ \E t_sync \in SyncOutcomes, res \in RenderOutcomes : WasapiPass(t_sync, res)
    \/ WasapiDevicePlays

SpecBackends == InitBackends /\ [][NextBackends]_vars

\* StateChange events i and i + 1 report Streaming and then Connecting: the
\* device was invalidated while it was streaming
InvalidatedWhileStreaming ==
    \E i \in 1..(Len(reported) - 1) :
        reported[i] = "Streaming" /\ reported[i + 1] = "Connecting"

\* C13: the values of t passed to eval, over all process callbacks and render
\* passes, are 0, 1, 2, ... in order, none twice and none skipped, and
\* t_write is the next index: it is never reset, whatever commands, pauses
\* and device re-initialisations happen in between (a panicking eval on the
\* PipeWire backend leaves t_write on the index that panicked).
C13_SampleIndexSequence ==
    /\ \A i \in 1..Len(evals) : evals[i].t = i - 1
    /\ \A i \in 1..(Len(evals) - 1) : ~evals[i].panic
    /\ T_WRITE = IF backend = "pipewire" /\ evals # <<>> /\ evals[Len(evals)].panic
                   THEN Len(evals) - 1 ELSE Len(evals)

\* C13 witness: frames were rendered before an invalidation and again, with
\* another beat, after the re-initialisation
C13_RenderedAcrossReinit ==
    /\ backend = "wasapi"
    /\ InvalidatedWhileStreaming
    /\ is_active(state_tracker)
    /\ wasapi.padding > 0
    /\ Len(evals) > bufsize
    /\ Len(stored) >= 3
    /\ ~evals[Len(evals)].panic

(***************************************************************************)
(* The sample ring and its consumer (src/src/app/scope.rs). The ring of    *)
(* the program has RingCapacity slots; here it is built with RingSlots so  *)
(* that it fills up within a few callbacks. The producers are the frame    *)
(* loops of the two backends; the consumer is Scope::update on the UI      *)
(* thread, one pop at a time.                                              *)
(***************************************************************************)
\* slots of the ring in SpecRing
RingSlots == 2

\* How many samples we display on one chart
CHART_SAMPLES == 32000

\* the while loop of Scope::update: consumer.pop() returned Ok(sample)
ScopePop ==
    /\ ring # <<>>
    /\ ring' = Tail(ring)
    /\ scope' = [scope EXCEPT !.intermediate_queue = Append(@, Head(ring)),
                              !.t_read = @ + 1]
    /\ UNCHANGED <<capacity, T_PLAY, played, timer>>
    /\ UNCHANGED <<cmd_queue, BEAT, stored, stream_active, stream_volume, T_WRITE, proc, sends,
                   buffers, evals>>
    /\ UNCHANGED exceptScope

\* the last n elements of q
LastN(q, n) == IF Len(q) <= n THEN q ELSE SubSeq(q, Len(q) - n + 1, Len(q))

\* mutation of sync_chart: the oldest points are never dropped from the chart
sync_chart_Untrimmed(sc, play_head) ==
    IF play_head > sc.t_chart_head
      THEN LET needed == play_head - sc.t_chart_head
               count == Min(needed, Len(sc.intermediate_queue))
           IN  [sc EXCEPT
                  !.t_chart_head = @ + count,
                  !.intermediate_queue = SubSeq(@, count + 1, Len(@)),
                  !.chart_buffer =
                      @ \o [k \in 1..count |->
                               <<sc.t_chart_head + k, sc.intermediate_queue[k]>>]]
      ELSE sc

\* the second half of Scope::update: count samples move from the
\* intermediate queue to the chart, which keeps its last CHART_SAMPLES points
sync_chart(sc, play_head) ==
    IF play_head > sc.t_chart_head
      THEN LET needed == play_head - sc.t_chart_head
               count == Min(needed, Len(sc.intermediate_queue))
           IN  [sc EXCEPT
                  !.t_chart_head = @ + count,
                  !.intermediate_queue = SubSeq(@, count + 1, Len(@)),
                  !.chart_buffer =
                      LastN(@ \o [k \in 1..count |->
                                     <<sc.t_chart_head + k, sc.intermediate_queue[k]>>],
                            CHART_SAMPLES)]
      ELSE sc

\* consumer.pop() returned Err (the ring is empty): the loop ends and the
\* rest of Scope::update runs with the t_play it loads
ScopeSync ==
    /\ ring = <<>>
    /\ scope' = sync_chart(scope, T_PLAY)
    /\ UNCHANGED <<capacity, T_PLAY, played, timer>>
    /\ UNCHANGED <<cmd_queue, audioVars>>
    /\ UNCHANGED exceptScope

\* the program with a ring of RingSlots slots, built for either backend
InitRing ==
    /\ InitCompile
    /\ InitUI
    /\ InitAudio
    /\ InitArithIdle
    /\ InitEvent
    /\ capacity = RingSlots
    /\ T_PLAY = 0
    /\ played = 0
    /\ timer = TimerIdle
    /\ scope = ScopeNew
    /\ backend \in {"pipewire", "wasapi"}
    /\ state_tracker = StreamStateTrackerNew
    /\ reported = <<>>
    /\ wasapi = WasapiStart

\* the device calls of SpecRing succeed
NextRing ==
    \/ \E code \in CursorCodes : ClientNewBeat(code)
    \/ ClientPlay
    \/ AudioCommandHandler
    \/ \E n \in 0..MaxFrames : ProcessStart(n)
    \/ ProcessFrame
    \/ ProcessEnd
    \/ WasapiInit(TRUE)
    \/ WasapiCommand
    \/ \E t_sync \in {"none", "padding"} : WasapiPass(t_sync, "ok")
    \/ WasapiDevicePlays
    \/ ScopePop
    \/ ScopeSync

SpecRing == InitRing /\ [][NextRing]_vars

\* the samples the consumer has popped, in the order it popped them: those
\* it moved to the chart, then those still in its intermediate queue
Received ==
    [k \in 1..Len(scope.chart_buffer) |-> scope.chart_buffer[k][2]]
       \o scope.intermediate_queue

\* the samples of the evals whose push found the ring not full
RECURSIVE Pushed(_)
Pushed(ev) ==
    IF ev = <<>> THEN <<>>
    ELSE IF Head(ev).panic \/ Head(ev).full THEN Pushed(Tail(ev))
    ELSE <<Head(ev).val>> \o Pushed(Tail(ev))

\* the samples of all evals that returned
RECURSIVE Produced(_)
Produced(ev) ==
    IF ev = <<>> THEN <<>>
    ELSE IF Head(ev).panic THEN Produced(Tail(ev))
    ELSE <<Head(ev).val>> \o Produced(Tail(ev))

\* C15: what the consumer has received followed by what is still in the ring
\* is, in production order and each once, the samples whose push found the
\* ring not full; so when no push has found the ring full every sample
\* produced is received or still in the ring, and t_read counts the samples
\* received.
C15_RingDeliversInOrder ==
    /\ Received \o ring = Pushed(evals)
    /\ (\A i \in 1..Len(evals) : ~evals[i].full) => Received \o ring = Produced(evals)
    /\ scope.t_read = Len(Received)
    /\ Len(ring) <= capacity

\* C15 witness: more samples than the ring holds were produced, none was
\* dropped, and the consumer has received them all
C15_AllReceived ==
    /\ Len(Produced(evals)) > 2 * capacity
    /\ \A i \in 1..Len(evals) : ~evals[i].full
    /\ Received = Produced(evals)

\* the ring has no free slot
RingFull == Len(ring) >= capacity

\* C16: the frame loops never wait on the consumer and the consumer never
\* waits on them. A frame loop with a frame to produce can take its step
\* whatever the ring holds, and the end of the consumer's drain can run on
\* an empty ring; a step that evaluates frames while the ring is full still
\* advances t_write by the frames evaluated and still writes them to the
\* audio buffer, and leaves the ring as it was.
C16_ProducerNeverWaits ==
    /\ []((backend = "pipewire" /\ proc.state = "filling" /\ proc.i < proc.n)
             => ENABLED ProcessFrame)
    /\ []((backend = "wasapi" /\ wasapi.pc = "commands" /\ cmd_queue = <<>>
           /\ is_active(state_tracker) /\ buffers < MaxBuffers)
             => ENABLED WasapiPass("none", "ok"))
    /\ [](ring = <<>> => ENABLED ScopeSync)
    /\ [][(RingFull /\ Len(evals') > Len(evals) /\ ~evals'[Len(evals')].panic) =>
             /\ ring' = ring
             /\ T_WRITE' = T_WRITE + (Len(evals') - Len(evals))
             /\ backend = "pipewire" =>
                   /\ Len(proc'.frames) = Len(proc.frames) + 1
                   /\ proc'.frames[Len(proc'.frames)].val = evals'[Len(evals')].val
             /\ backend = "wasapi" =>
                   wasapi'.padding = wasapi.padding + (Len(evals') - Len(evals))]_vars

\* C16 witness: a push found the ring full and was skipped, the frame loop
\* went on, the consumer drained the ring and a later push succeeded
C16_DroppedAndContinued ==
    /\ \E i \in 1..(Len(evals) - 1) :
          /\ evals[i].full
          /\ ~evals[Len(evals)].full
          /\ ~evals[Len(evals)].panic
    /\ scope.t_read >= capacity

(***************************************************************************)
(* The command channel: the EventHandler's senders on one side, the        *)
(* command callback (PipeWire) or the command loop (WASAPI) on the other.  *)
(***************************************************************************)
\* EventHandler::set_volume called by a client
ClientSetVolume(vol) ==
    /\ sends < MaxSends
    /\ sends' = sends + 1
    /\ cmd_queue' = set_volume(cmd_queue, vol)
    /\ UNCHANGED <<BEAT, stored, stream_active, stream_volume, T_WRITE, ring, evals, proc,
                   buffers>>
    /\ UNCHANGED exceptAudio

\* the volumes the clients of SpecCommands set
ClientVolumes == {VolumeSet(3)}

NextCommands ==
    \/ \E code \in AudioCodes : ClientNewBeat(code)
    \/ ClientPlay
    \/ ClientPause
    \/ \E vol \in ClientVolumes : ClientSetVolume(vol)
    \/ AudioCommandHandler
    \/ \E ok \in BOOLEAN : WasapiInit(ok)
    \/ WasapiCommand
    \/ \E res \in {"ok", "invalidated"} : WasapiPass("none", res)

SpecCommands == InitBackends /\ [][NextCommands]_vars

\* the beat that is active once the commands now queued are handled: the
\* beat of the newest NewBeat in the channel, or the active beat
EventualBeat ==
    LET queued == SelectSeq(cmd_queue, LAMBDA c : c.kind = "NewBeat")
    IN  IF queued = <<>> THEN BEAT.beat ELSE queued[Len(queued)].beat

\* the audio thread applies msg in this step
Applies(msg) ==
    CASE msg.kind = "Play"      -> stream_active' /\ BEAT' = BEAT /\ stream_volume' = stream_volume
      [] msg.kind = "Pause"     -> ~stream_active' /\ BEAT' = BEAT /\ stream_volume' = stream_volume
      [] msg.kind = "NewBeat"   -> /\ BEAT'.beat = msg.beat
                                   /\ stored' = Append(stored, msg.beat)
                                   /\ stream_active' = stream_active
                                   /\ stream_volume' = stream_volume
      [] msg.kind = "SetVolume" -> /\ stream_volume' = msg.vol
                                   /\ BEAT' = BEAT
                                   /\ stream_active' = stream_active

\* C17: the channel is changed only by a sender appending one command at
\* its tail, which applies nothing, or by the audio thread removing the
\* command at its head and applying exactly that one; no beat or volume is
\* applied in a step that removes nothing. Hence the beat that is active
\* when the channel has been emptied is the one of the last NewBeat sent: it
\* changes only when a NewBeat is sent, never when a command is handled.
C17_CommandsFifoOnce ==
    [][/\ cmd_queue' # cmd_queue =>
             \/ /\ Len(cmd_queue') = Len(cmd_queue) + 1
                /\ SubSeq(cmd_queue', 1, Len(cmd_queue)) = cmd_queue
                /\ sends' = sends + 1
                /\ UNCHANGED <<BEAT, stored, stream_active, stream_volume>>
             \/ /\ cmd_queue # <<>>
                /\ cmd_queue' = Tail(cmd_queue)
                /\ sends' = sends
                /\ Applies(Head(cmd_queue))
       /\ cmd_queue' = cmd_queue => UNCHANGED <<BEAT, stored, stream_volume>>
       /\ EventualBeat' =
             IF Len(cmd_queue') > Len(cmd_queue) /\ cmd_queue'[Len(cmd_queue')].kind = "NewBeat"
               THEN cmd_queue'[Len(cmd_queue')].beat
               ELSE EventualBeat]_vars

\* C17 witness: all the commands the bounds allow were sent and handled, among
\* them two different beats and a volume; the second beat is the active one
C17_AllHandled ==
    /\ sends = MaxSends
    /\ cmd_queue = <<>>
    /\ Len(stored) = 3
    /\ stored[2] # stored[3]
    /\ BEAT.beat = stored[3]
    /\ stream_volume # VolumeDefault

(***************************************************************************)
(* The event thread (src/src/event.rs, EventThread::run) in interactive    *)
(* mode (no file watch): each iteration computes the timeout left until    *)
(* the next tick, emits a Tick when none is left, polls the terminal for   *)
(* at most that timeout and forwards at most one terminal event. The clock *)
(* and the terminal are the environment.                                   *)
(***************************************************************************)
\* tick_interval (1 / TICK_FPS seconds), in steps of the clock
TickInterval == 2

\* the clock stops here
MaxClock == 6

\* terminal events that arrive
MaxArrivals == 4

\* Duration::saturating_sub
saturating_sub(a, b) == IF a > b THEN a - b ELSE 0

\* mutation of TickTimeout: the timeout never reaches zero
TickTimeout_NeverZero(et, clock) == saturating_sub(TickInterval, clock - et.last_tick) + 1

\* tick_interval.saturating_sub(last_tick.elapsed())
TickTimeout(et, clock) == saturating_sub(TickInterval, clock - et.last_tick)

\* at least one tick interval has elapsed since the last Tick
TickDue == now - event_thread.last_tick >= TickInterval

\* the clock advances by one step
ClockTicks ==
    /\ now < MaxClock
    /\ now' = now + 1
    /\ UNCHANGED <<event_thread, stdin, forwarded_due, term_queue>>
    /\ UNCHANGED exceptEvent

\* a key is pressed: the terminal has one more event to read
KeyArrives(k) ==
    /\ keys_pressed < MaxArrivals
    /\ keys_pressed' = keys_pressed + 1
    /\ stdin' = Append(stdin, k)
    /\ UNCHANGED <<now, event_thread, forwarded_due, term_queue>>
    /\ UNCHANGED <<compileVars, app, last_submit, cmd_queue, audioVars, arithVars, scopeVars,
                   wasapiVars>>

\* the end of an iteration: file_watch_rx.try_recv() panics the thread when
\* the watcher's channel is disconnected; otherwise the loop goes on (the
\* watcher's own events are not modelled)
file_watch_try_recv(et) ==
    IF et.file_watch_receiver = "Disconnected" THEN "panicked" ELSE "top"

\* the top of the loop: the timeout, and the Tick if the timeout is zero
LoopTop ==
    /\ event_thread.pc = "top"
    /\ \E timeout \in {TickTimeout(event_thread, now)} :
          /\ event_thread' = [event_thread EXCEPT
                                !.pc = "poll",
                                !.last_tick = IF timeout = 0 THEN now ELSE @,
                                !.timeout = timeout,
                                !.poll_until = now + timeout]
          /\ term_queue' = IF timeout = 0 THEN Append(term_queue, [kind |-> "Tick"])
                           ELSE term_queue
          /\ forwarded_due' = IF timeout = 0 THEN 0 ELSE forwarded_due
    /\ UNCHANGED <<now, stdin>>
    /\ UNCHANGED exceptEvent

\* event::poll(timeout) returned true: event::read() and the send
PollReady ==
    /\ event_thread.pc = "poll"
    /\ stdin # <<>>
    /\ stdin' = Tail(stdin)
    /\ term_queue' = Append(term_queue, [kind |-> "Crossterm", key |-> Head(stdin)])
    /\ forwarded_due' = IF TickDue THEN forwarded_due + 1 ELSE forwarded_due
    /\ event_thread' = [event_thread EXCEPT !.pc = file_watch_try_recv(event_thread)]
    /\ UNCHANGED now
    /\ UNCHANGED exceptEvent

\* event::poll(timeout) returned false: the timeout went by with no event
PollTimeout ==
    /\ event_thread.pc = "poll"
    /\ stdin = <<>>
    /\ now >= event_thread.poll_until
    /\ event_thread' = [event_thread EXCEPT !.pc = file_watch_try_recv(event_thread)]
    /\ UNCHANGED <<now, stdin, forwarded_due, term_queue>>
    /\ UNCHANGED exceptEvent

NextEvents ==
    \/ ClockTicks
    \/ \E k \in {Char("0"), Press("Enter")} : KeyArrives(k)
    \/ LoopTop
    \/ PollReady
    \/ PollTimeout

SpecEvents == Init /\ [][NextEvents]_vars

\* the step is the top of an iteration / the poll of an iteration
AtTop == event_thread.pc = "top" /\ event_thread'.pc = "poll"

AtPoll == event_thread.pc = "poll" /\ event_thread'.pc = "top"

\* C18: an iteration that starts when a tick interval has elapsed since the
\* last Tick emits a Tick, and restarts the interval, before it polls and
\* without reading the terminal; an iteration that starts earlier emits
\* none; the poll forwards at most one terminal event, the oldest; so while
\* a Tick is due at most one terminal event is forwarded before it, however
\* many are waiting.
C18_TicksNotStarved ==
    /\ [][/\ (AtTop /\ TickDue) =>
                /\ term_queue' = Append(term_queue, [kind |-> "Tick"])
                /\ event_thread'.last_tick = now
                /\ stdin' = stdin
          /\ (AtTop /\ ~TickDue) => (term_queue' = term_queue /\ stdin' = stdin)
          /\ AtPoll =>
                \/ term_queue' = term_queue /\ stdin' = stdin
                \/ /\ stdin # <<>>
                   /\ stdin' = Tail(stdin)
                   /\ term_queue' = Append(term_queue,
                                           [kind |-> "Crossterm", key |-> Head(stdin)])]_vars
    /\ [](forwarded_due <= 1)

\* C18 witness: terminal events were waiting all along, one was forwarded
\* while a Tick was due, and the Tick has been emitted with events still
\* waiting
C18_TickDuringBurst ==
    /\ Len(stdin) >= 2
    /\ Len(term_queue) >= 4
    /\ term_queue[Len(term_queue)].kind = "Tick"
    /\ term_queue[Len(term_queue) - 1].kind = "Crossterm"
    /\ term_queue[Len(term_queue) - 2].kind = "Crossterm"
    /\ event_thread.pc = "poll"
    /\ event_thread.timeout = 0

(***************************************************************************)
(* The WASAPI thread on its own, with its clients. The thread is a loop    *)
(* that keeps running, so a command it can receive is eventually received. *)
(***************************************************************************)
NextWasapi ==
    \/ \E code \in CursorCodes : ClientNewBeat(code)
    \/ ClientPlay
    \/ ClientPause
    \/ \E ok \in BOOLEAN : WasapiInit(ok)
    \/ WasapiCommand
    \/ \E t_sync \in SyncOutcomes, res \in RenderOutcomes : WasapiPass(t_sync, res)
    \/ WasapiDevicePlays

InitWasapi == InitBackends /\ backend = "wasapi"

SpecWasapi == InitWasapi /\ [][NextWasapi]_vars /\ WF_vars(WasapiCommand)

\* the step leaves the inner loop for a re-initialisation, or is an attempt
\* of Device::init
Reinitialises ==
    \/ wasapi.pc = "commands" /\ wasapi'.pc = "init"
    \/ wasapi.pc = "init" /\ wasapi'.inits = wasapi.inits + 1

\* the step is one of the audio thread: it is neither a client's send nor
\* the device playing a frame
AudioThreadStep ==
    \/ <<BEAT, stream_volume, T_WRITE, T_PLAY, ring, state_tracker>>' #
          <<BEAT, stream_volume, T_WRITE, T_PLAY, ring, state_tracker>>
    \/ wasapi'.pc # wasapi.pc
    \/ wasapi'.inits # wasapi.inits
    \/ Len(cmd_queue') < Len(cmd_queue)

\* C19: on the WASAPI backend an invalidation, a failed and a successful
\* Device::init all leave the command channel, the active beat and the play
\* cursor's counter as they are (the invalidating pass itself may have
\* rendered and synchronised), and the ring keeps what it held; while no
\* device is initialised the channel only grows; once a device is
\* initialised the thread takes the pending commands, oldest first, before
\* it renders, and the channel is eventually drained.
C19_CommandsSurviveReinit ==
    /\ [][/\ Reinitialises =>
                /\ cmd_queue' = cmd_queue
                /\ BEAT' = BEAT
                /\ capacity' = capacity
                /\ SubSeq(ring', 1, Len(ring)) = ring
                /\ wasapi.pc = "init" => UNCHANGED <<T_WRITE, T_PLAY, ring>>
          /\ wasapi.pc = "init" => SubSeq(cmd_queue', 1, Len(cmd_queue)) = cmd_queue
          /\ (wasapi.pc = "commands" /\ cmd_queue # <<>> /\ AudioThreadStep) =>
                /\ cmd_queue' = Tail(cmd_queue)
                /\ Applies(Head(cmd_queue))
                /\ UNCHANGED <<T_WRITE, T_PLAY, ring, wasapi>>]_vars
    /\ (wasapi.pc = "commands" /\ cmd_queue # <<>>) ~> (cmd_queue = <<>>)

\* C19 witness: the device was invalidated while streaming, an attempt to
\* initialise it failed, the next one succeeded, and commands sent meanwhile
\* are pending in the channel, about to be taken
C19_PendingAfterReinit ==
    /\ InvalidatedWhileStreaming
    /\ wasapi.pc = "commands"
    /\ wasapi.inits = 3
    /\ reported[Len(reported)] = "Paused"
    /\ reported[Len(reported) - 1] = "Connecting"
    /\ reported[Len(reported) - 2] = "Error"
    /\ Len(cmd_queue) >= 2
    /\ cmd_queue[1].kind = "NewBeat"

\* C20 as stated: between an Error and the next Error (no initialisation
\* having succeeded in between) no other status is reported.
C20_ErrorPersists ==
    ~\E i \in 1..(Len(reported) - 2) :
        /\ reported[i] = "Error"
        /\ reported[i + 1] = "Connecting"
        /\ reported[i + 2] = "Error"

(***************************************************************************)
(* The event thread and the UI thread together (src/src/event.rs,          *)
(* src/src/app.rs): the event thread ends when the terminal poll or read   *)
(* fails (run returns the error) or when the file-watch channel is         *)
(* disconnected (panic); the UI thread blocks in EventHandler::next.       *)
(***************************************************************************)
\* event::poll or event::read returned an error: run returns it through `?`
\* and the thread ends, dropping its Sender
PollFails ==
    /\ event_thread.pc = "poll"
    /\ event_thread' = [event_thread EXCEPT !.pc = "stopped"]
    /\ UNCHANGED <<now, stdin, forwarded_due, term_queue>>
    /\ UNCHANGED exceptEvent

\* the watcher's Sender is dropped
WatcherDrops ==
    /\ event_thread.file_watch_receiver = "Open"
    /\ event_thread' = [event_thread EXCEPT !.file_watch_receiver = "Disconnected"]
    /\ UNCHANGED <<now, stdin, forwarded_due, term_queue>>
    /\ UNCHANGED exceptEvent

\* main() with or without --watch-file
InitFatal ==
    /\ InitCompile
    /\ InitUI
    /\ InitAudio
    /\ InitScope
    /\ InitWasapiIdle
    /\ now = 0
    /\ \E fw \in {"None", "Open"} : event_thread = EventThreadNew(fw)
    /\ stdin = <<>>
    /\ forwarded_due = 0
    /\ InitArithIdle

NextFatal ==
    \/ ClockTicks
    \/ \E k \in {Press("F1")} : KeyArrives(k)
    \/ LoopTop
    \/ PollReady
    \/ PollTimeout
    \/ PollFails
    \/ WatcherDrops
    \/ AppUpdate

\* the UI thread keeps running: a turn of App::run that can be taken is taken
SpecFatal == InitFatal /\ [][NextFatal]_vars /\ WF_vars(AppUpdate)

\* the event thread has ended: run returned an error or panicked
EventThreadStopped == event_thread.pc \in {"stopped", "panicked"}

\* C21: once the event thread has stopped, the UI loop ends: EventHandler::next
\* returns an error and App::run leaves its loop.
C21_StoppedThreadEndsUI == EventThreadStopped ~> ~app.running

(***************************************************************************)
(* The UI thread and the global keys (src/src/app.rs): the terminal        *)
(* delivers function keys and Esc, pressed or released, in any order; each *)
(* turn of App::run handles one event.                                     *)
(***************************************************************************)
ViewKeys ==
    {Press("F1"), Press("F2"), Press("F3"), Press("F5"), Press("Esc"),
     Key("F2", "", FALSE, FALSE)}

NextViews ==
    \/ \E k \in ViewKeys : PressKey(k)
    \/ AppUpdate

\* the UI thread keeps running: a turn of App::run that can be taken is taken
SpecViews == Init /\ [][NextViews]_vars /\ WF_vars(AppUpdate)

\* the UI is about to receive this terminal key event / this App event
Receives(k) ==
    /\ app.running
    /\ term_queue # <<>>
    /\ Head(term_queue) = [kind |-> "Crossterm", key |-> k]

ReceivesApp(e) ==
    /\ app.running
    /\ term_queue # <<>>
    /\ Head(term_queue) = [kind |-> "App", ev |-> e]

\* App::run has left its loop and returned Ok(())
ReturnedOk == ~app.running /\ ~app.panicked /\ ~app.failed

\* C22: once the UI receives a Press of F3, in whatever view and with or
\* without the help, running becomes false and App::run returns Ok; while
\* running is false the UI dequeues no event, sends no audio command and
\* changes nothing of the App.
C22_QuitEndsRun ==
    /\ Receives(Press("F3")) ~> ReturnedOk
    /\ [][~app.running =>
            /\ app' = app
            /\ cmd_queue' = cmd_queue
            /\ SubSeq(term_queue', 1, Len(term_queue)) = term_queue]_vars

\* C22 witness: the run has ended from the BigLog view with the help shown,
\* leaving events in the queue that are never dequeued
C22_QuitWithEventsLeft ==
    /\ ReturnedOk
    /\ app.view = "BigLog"
    /\ app.show_help
    /\ Len(term_queue) = MaxPending
    /\ keys_pressed = MaxKeys

LibraryKeys == {Press("F5"), Press("Up"), Press("Down"), Char("0"), Char("1"), Char("z")}

NextLibrary ==
    \/ \E k \in LibraryKeys : PressKey(k)
    \/ AppUpdate
    \/ AudioCommandHandler

SpecLibrary == Init /\ [][NextLibrary]_vars

\* the table as the draw of this turn leaves it, which is what the key
\* handler of the turn sees
DrawnTable == Pick({ Draw(app, h).library.table_state : h \in UsableHeights })

\* C24: in Library view a Press of Down selects the next row of the current
\* page and a Press of Up the previous one.
C24_ArrowsMoveSelection ==
    [][/\ (Receives(Press("Down")) /\ app.view = "Library" /\ UIStep) =>
             app'.library.table_state = select_next(DrawnTable)
       /\ (Receives(Press("Up")) /\ app.view = "Library" /\ UIStep) =>
             app'.library.table_state = select_prev(DrawnTable)]_vars

\* the character is the key of a row of the drawn page
HasRow(c) ==
    /\ key_char_to_index(c) # None
    /\ key_char_to_index(c)[1] < page_len(DrawnTable)

\* the code of the row of the drawn page that has this key
RowCode(c) == SONGS[DrawnTable.page * DrawnTable.items_per_page + key_char_to_index(c)[1] + 1]

\* C25: in Library view a character that is the key of a row of the current
\* page selects that row and asks for exactly its code to be played
\* (InputReady), and a character that is the key of no row selects nothing
\* and asks for nothing; playing the code sends it to the audio thread and
\* leaves the editor buffer as it was.
C25_CharKeyPreviewsItsRow ==
    [][/\ \A c \in {"0", "1", "z"} :
            (Receives(Char(c)) /\ app.view = "Library" /\ UIStep) =>
               /\ app'.beat_input = app.beat_input
               /\ cmd_queue' = cmd_queue
               /\ IF HasRow(c)
                    THEN /\ app'.library.table_state.selection = key_char_to_index(c)
                         /\ term_queue' = Append(Tail(term_queue),
                                                 [kind |-> "App", ev |-> InputReady(RowCode(c))])
                    ELSE /\ app'.library.table_state = DrawnTable
                         /\ term_queue' = Tail(term_queue)
       /\ \A code \in {SONGS[i] : i \in 1..Len(SONGS)} :
            (ReceivesApp(InputReady(code)) /\ UIStep) =>
               /\ app'.beat_input.input = app.beat_input.input
               /\ cmd_queue' = Append(cmd_queue, NewBeat(BeatCompile(code).beat))]_vars

(***************************************************************************)
(* Playback and volume (src/src/app.rs): F4 toggles playback, Up and Down  *)
(* change the volume; the audio thread handles the commands at its own     *)
(* pace and reports the stream's state changes to the UI as events.        *)
(***************************************************************************)
PlaybackKeys == {Press("F4"), Press("Up"), Press("Down")}

\* the state_changed callback of the stream: the new state is sent to the UI
StateChanged(new_state) ==
    /\ backend = "pipewire"
    /\ Len(term_queue) < MaxPending
    /\ term_queue' = Append(term_queue, [kind |-> "Audio", status |-> new_state])
    /\ UNCHANGED <<app, keys_pressed, last_submit, cmd_queue>>
    /\ UNCHANGED exceptUI

NextPlayback ==
    \/ \E k \in PlaybackKeys : PressKey(k)
    \/ AppUpdate
    \/ AudioCommandHandler
    \/ \E new_state \in {"Paused", "Streaming"} : StateChanged(new_state)

SpecPlayback == Init /\ [][NextPlayback]_vars

\* the step is a turn of the UI thread: the oldest event leaves the queue
\* and at most one response joins it
UITurn == term_queue' # term_queue /\ Len(term_queue') <= Len(term_queue)

\* the Play and Pause commands in the channel, oldest first, as the stream
\* activity each asks for, after the activity the audio thread applied last
Toggles ==
    <<stream_active>> \o
      [i \in 1..Len(SelectSeq(cmd_queue, LAMBDA c : c.kind \in {"Play", "Pause"})) |->
         SelectSeq(cmd_queue, LAMBDA c : c.kind \in {"Play", "Pause"})[i].kind = "Play"]

\* C26: handling TogglePlay sends exactly one command, Play if paused was
\* true and Pause otherwise, and flips paused in the same step, whatever
\* audio_state is; nothing else changes paused or sends Play or Pause;
\* audio_state changes only by a StateChange event, to the status it
\* carries; so the Play and Pause commands alternate, starting with Play,
\* and the last one sent is Play exactly when paused is false.
C26_TogglesAlternate ==
    /\ [][ /\ (ReceivesApp(Plain("TogglePlay")) /\ UITurn) =>
                /\ app'.paused = ~app.paused
                /\ app'.audio_state = app.audio_state
                /\ cmd_queue' = Append(cmd_queue, IF app.paused THEN Play ELSE Pause)
           /\ app'.paused # app.paused => ReceivesApp(Plain("TogglePlay"))
           /\ (Len(cmd_queue') > Len(cmd_queue)
                 /\ cmd_queue'[Len(cmd_queue')].kind \in {"Play", "Pause"}) =>
                ReceivesApp(Plain("TogglePlay"))
           /\ app'.audio_state # app.audio_state =>
                /\ app.running
                /\ term_queue # <<>>
                /\ Head(term_queue).kind = "Audio"
                /\ app'.audio_state = Head(term_queue).status
                /\ cmd_queue' = cmd_queue
                /\ app'.paused = app.paused]_vars
    /\ [](/\ \A i \in 1..(Len(Toggles) - 1) : Toggles[i + 1] = ~Toggles[i]
          /\ Toggles[Len(Toggles)] = ~app.paused)

\* C26 witness: three toggles were handled before the audio thread took any
\* command, while the UI still shows the stream as never connected
C26_ThreeTogglesAhead ==
    /\ cmd_queue = <<Play, Pause, Play>>
    /\ ~app.paused
    /\ ~stream_active
    /\ app.audio_state = "Unconnected"

\* the value of the last SetVolume sent: the newest in the channel, or the
\* one the audio thread applied last
LastVolumeSent ==
    LET sent == SelectSeq(cmd_queue, LAMBDA c : c.kind = "SetVolume")
    IN  IF sent = <<>> THEN stream_volume ELSE sent[Len(sent)].vol

\* C27: audio_vol (in tenths) stays within 0..10; handling VolumeUp or
\* VolumeDown moves it by one tenth clamped to that range and sends exactly
\* one SetVolume carrying the new value; nothing else changes it; audio_vol
\* is the value of the last SetVolume sent.
C27_VolumeClamped ==
    /\ [](app.audio_vol \in 0..10 /\ app.audio_vol = LastVolumeSent)
    /\ [][ /\ (ReceivesApp(Plain("VolumeUp")) /\ UITurn) =>
                /\ app'.audio_vol = Min(app.audio_vol + 1, 10)
                /\ cmd_queue' = Append(cmd_queue, SetVolume(app'.audio_vol))
           /\ (ReceivesApp(Plain("VolumeDown")) /\ UITurn) =>
                /\ app'.audio_vol = (IF app.audio_vol = 0 THEN 0 ELSE app.audio_vol - 1)
                /\ cmd_queue' = Append(cmd_queue, SetVolume(app'.audio_vol))
           /\ app'.audio_vol # app.audio_vol =>
                (ReceivesApp(Plain("VolumeUp")) \/ ReceivesApp(Plain("VolumeDown")))]_vars

\* C27 witness: a VolumeUp was handled at full volume: the SetVolume it sent
\* carries the clamped value
C27_ClampedAtFull ==
    /\ app.audio_vol = 10
    /\ Len(cmd_queue) >= 2
    /\ cmd_queue[Len(cmd_queue)] = SetVolume(10)
    /\ cmd_queue[Len(cmd_queue) - 1] = SetVolume(10)

(***************************************************************************)
(* Lexer harness (src/src/parser/lex.rs): a source is typed character by   *)
(* character, then a Lexer is run over it, one call of next() at a time,   *)
(* past the end of the input.                                              *)
(***************************************************************************)
\* characters typed in SpecLex: a variable, a character that starts a one-
\* or two-character operator, digits and a base prefix (x alone is an
\* unexpected character), and white space with both line endings
LexAlphabet == {"t", "|", "0", "x", " ", "\n", "\r"}

\* calls of next() once the input is exhausted
MaxEofs == 2

\* one call of Lexer::next; the token is recorded with its span, the lexer's
\* line when the call returns, and the positions in the source of the first
\* and the last character it consumed after the white space
LexerNext ==
    /\ Len(SelectSeq(tokens, LAMBDA k : k.node = TokEof)) < MaxEofs
    /\ \E l0 \in {skip_whitespace(src_in, lexer)} :
         \E r \in {LexNext(src_in, lexer)} :
            /\ tokens' = Append(tokens, [node |-> r.tok, span |-> r.span,
                                         end_line |-> r.end_line,
                                         line_after |-> r.lx.line,
                                         first |-> l0.pos, last |-> r.lx.pos - 1])
            /\ lexer' = r.lx
    /\ UNCHANGED <<src_in, gen, compiled, arena_out, samples>>
    /\ UNCHANGED exceptCompile

NextLex ==
    \/ \E c \in LexAlphabet : TypeSource(c)
    \/ LexerNext

SpecLex == Init /\ [][NextLex]_vars

\* (line, start) of a is not after (line, start) of b
NotAfter(a, b) == a.line < b.line \/ (a.line = b.line /\ a.start <= b.start)

\* C28: the tokens returned by successive calls of next() have
\* non-decreasing (line, start), the Eof tokens returned after the end of
\* the input included.
C28_SpansMonotonic ==
    \A i \in 1..(Len(tokens) - 1) : NotAfter(tokens[i].span, tokens[i + 1].span)

\* C28 witness: the input ends with a line feed, as in test_newline_at_end:
\* two tokens on line 0, one on line 1, then Eof twice at (2, 0)
C28_EofAfterLastLine ==
    /\ src_in = <<"t", "|", "\n", "t", "\n">>
    /\ Len(tokens) = 5
    /\ tokens[3].span = SpanNew(1, 0, 0)
    /\ tokens[4].node = TokEof /\ tokens[4].span = SpanNew(2, 0, 0)
    /\ tokens[5] = tokens[4]

\* C29: every token lies on one line: the assertion start_line == end_line
\* holds, the lexer is still on the token's line when next() returns, none
\* of the characters the token consumed is a line feed, its span has
\* start <= end, and an operator of two characters is made of two adjacent
\* characters.
C29_NoTokenAcrossLines ==
    \A i \in 1..Len(tokens) :
        /\ tokens[i].end_line = tokens[i].span.line
        /\ tokens[i].line_after = tokens[i].span.line
        /\ tokens[i].span.start <= tokens[i].span.end
        /\ \A p \in tokens[i].first..tokens[i].last : src_in[p] # "\n"
        /\ tokens[i].node = TokOp("LogOr") =>
              /\ tokens[i].last = tokens[i].first + 1
              /\ src_in[tokens[i].first] = "|" /\ src_in[tokens[i].last] = "|"

\* C29 witness: "|\n|" has been lexed as two Or tokens, one per line
C29_TwoOrsNotLogOr ==
    /\ Len(src_in) >= 3
    /\ SubSeq(src_in, 1, 3) = <<"|", "\n", "|">>
    /\ Len(tokens) >= 2
    /\ tokens[1].node = TokOp("Or") /\ tokens[1].span = SpanNew(0, 0, 0)
    /\ tokens[2].node = TokOp("Or") /\ tokens[2].span = SpanNew(1, 0, 0)

(***************************************************************************)
(* Number literals (src/src/parser/lex.rs, lex_number): the source is a    *)
(* literal, most of them near INT32_MAX, in one of the four bases, alone   *)
(* or followed by "+t"; it is lexed token by token, compiled, evaluated.   *)
(***************************************************************************)
\* the values written, as hexadecimal digit values, most significant first
\* (they do not all fit an i32): INT32_MAX - 1, INT32_MAX, INT32_MAX + 1,
\* 2^32 - 1, 2^32 + 6, 10^12 and 42
LiteralValues ==
    {<<7, 15, 15, 15, 15, 15, 15, 14>>,
     <<7, 15, 15, 15, 15, 15, 15, 15>>,
     <<8, 0, 0, 0, 0, 0, 0, 0>>,
     <<15, 15, 15, 15, 15, 15, 15, 15>>,
     <<1, 0, 0, 0, 0, 0, 0, 0, 6>>,
     <<14, 8, 13, 4, 10, 5, 1, 0, 0, 0>>,
     <<2, 10>>}

RECURSIVE StripZeros(_)
StripZeros(ds) == IF ds # <<>> /\ ds[1] = 0 THEN StripZeros(Tail(ds)) ELSE ds

RECURSIVE LongDiv(_, _, _, _, _)
\* schoolbook division of the number ds (base 16) by the radix: quotient
\* digits and remainder
LongDiv(ds, radix, i, carry, q) ==
    IF i > Len(ds) THEN [q |-> StripZeros(q), r |-> carry]
    ELSE LongDiv(ds, radix, i + 1, (carry * 16 + ds[i]) % radix,
                 Append(q, (carry * 16 + ds[i]) \div radix))

RECURSIVE DigitsIn(_, _)
\* the digit values of the number ds (base 16) in the radix, most
\* significant first
DigitsIn(ds, radix) ==
    IF ds = <<>> THEN <<>>
    ELSE Pick({ Append(DigitsIn(d.q, radix), d.r) : d \in {LongDiv(ds, radix, 1, 0, <<>>)} })

\* the digit characters, lower or upper case
DigitChars(upper) == DecDigits \o (IF upper THEN HexUpper ELSE HexLower)

\* v written in the radix
WrittenDigits(v, radix, upper) ==
    Pick({ [i \in 1..Len(d) |-> DigitChars(upper)[d[i] + 1]] : d \in {DigitsIn(v, radix)} })

\* whether v is at most INT32_MAX
FitsI32(v) == Len(v) < 8 \/ (Len(v) = 8 /\ v[1] <= 7)

RECURSIVE HexValue(_, _, _)
HexValue(v, i, acc) == IF i > Len(v) THEN acc ELSE HexValue(v, i + 1, acc * 16 + v[i])

\* the C prefix of the base
BasePrefix(radix) ==
    CASE radix = 16 -> <<"0", "x">>
      [] radix = 2  -> <<"0", "b">>
      [] radix = 8  -> <<"0">>
      [] OTHER      -> <<>>

WrittenLiteral(v, radix, upper) == BasePrefix(radix) \o WrittenDigits(v, radix, upper)

\* what was written in the source: the value, the base, and what follows
Written ==
    [v : LiteralValues, radix : {2, 8, 10, 16}, upper : BOOLEAN, rest : {<<>>, <<"+", "t">>}]

SourceOf(w) == WrittenLiteral(w.v, w.radix, w.upper) \o w.rest

\* everything written, with its source text and the length of the literal
Sources ==
    { [w |-> w, src |-> SourceOf(w), len |-> Len(SourceOf(w)) - Len(w.rest)] : w \in Written }

InitLiterals ==
    /\ \E s \in Sources : src_in = s.src
    /\ gen = GenIdle
    /\ compiled = NotCompiled
    /\ arena_out = <<>>
    /\ samples = NoSamples
    /\ lexer = LexerNew
    /\ tokens = <<>>
    /\ InitUI
    /\ InitAudio
    /\ InitScope
    /\ InitWasapiIdle
    /\ InitEvent
    /\ InitArithIdle

NextLiterals ==
    \/ LexerNext
    \/ CompileSource
    \/ EvalCompiled

SpecLiterals == InitLiterals /\ [][NextLiterals]_vars

\* the value a literal of value v lexes to
Saturated(v) == IF FitsI32(v) THEN HexValue(v, 1, 0) ELSE INT32_MAX

\* C30: a literal in base 2, 8, 10 or 16, whatever the case of its digits,
\* lexes to one Number token whose span covers the prefix and all the
\* digits and whose value is the literal's value, or INT32_MAX when that
\* value exceeds INT32_MAX; the token after it is what follows the literal;
\* the source compiles, to Literal of that value when the literal is alone,
\* and evaluates to its low byte.
C30_OverflowSaturates ==
    \A s \in Sources :
        s.src = src_in =>
            /\ Len(tokens) >= 1 =>
                  /\ tokens[1].node = TokNumber(Saturated(s.w.v))
                  /\ tokens[1].span = SpanNew(0, 0, s.len - 1)
            /\ Len(tokens) >= 2 =>
                  tokens[2].node = (IF s.w.rest = <<>> THEN TokEof ELSE TokOp("Plus"))
            /\ compiled.done =>
                  /\ compiled.ok
                  /\ s.w.rest = <<>> => arena_out = <<Literal(Saturated(s.w.v))>>
                  /\ s.w.rest # <<>> => arena_out[1] = Literal(Saturated(s.w.v))
            /\ (samples # NoSamples /\ s.w.rest = <<>>) =>
                  \A t \in TSamples : samples.at[t] = Value(AsU8(Saturated(s.w.v)))

\* C30 witness: 0x80000000 was lexed to Number(INT32_MAX) spanning its ten
\* characters, then Eof, and compiled to Literal(INT32_MAX)
C30_HexOneAboveMax ==
    /\ src_in = <<"0", "x", "8", "0", "0", "0", "0", "0", "0", "0">>
    /\ Len(tokens) = 2
    /\ tokens[1].node = TokNumber(INT32_MAX)
    /\ tokens[1].span = SpanNew(0, 0, 9)
    /\ tokens[2].node = TokEof
    /\ compiled.done /\ compiled.ok
    /\ arena_out = <<Literal(INT32_MAX)>>

(***************************************************************************)
(* Precedence and associativity (src/src/parser/parse.rs, binding_power,   *)
(* infix_binding_power): the source is an expression with two operators    *)
(* and no parentheses; it is lexed, compiled and evaluated, and the tree    *)
(* the parser built is compared with the tree the precedence table gives.  *)
(***************************************************************************)
\* level of a binary operator in the precedence table, loosest first
TableLevel(op) == CHOOSE k \in 1..Len(CLevels) : op \in CLevels[k]

\* the forms of the expressions: two binary operators, a binary operator in
\* the condition, the then branch or the else branch of a conditional, and a
\* conditional in the then branch or the else branch of a conditional
Forms ==
    [form : {"bin_bin"}, o1 : DOMAIN BinaryLexemes, o2 : DOMAIN BinaryLexemes]
      \cup [form : {"bin_cond", "then_bin", "else_bin"}, o1 : DOMAIN BinaryLexemes, o2 : {"Question"}]
      \cup [form : {"then_cond", "else_cond"}, o1 : {"Question"}, o2 : {"Question"}]

\* the operands, left to right
Operands(f) ==
    IF f.form = "then_cond" THEN <<"t", "t", "1", "2", "0">> ELSE <<"t", "1", "2", "3", "4">>

RECURSIVE Spaced(_)
\* lexemes joined by single spaces
Spaced(lexemes) ==
    IF Len(lexemes) = 1 THEN lexemes[1]
    ELSE lexemes[1] \o <<" ">> \o Spaced(Tail(lexemes))

\* the source text of a form
FormSource(f) ==
    Pick({ Spaced(
             CASE f.form = "bin_bin" ->
                    << <<x[1]>>, BinaryLexemes[f.o1], <<x[2]>>, BinaryLexemes[f.o2], <<x[3]>> >>
               [] f.form = "bin_cond" ->
                    << <<x[1]>>, BinaryLexemes[f.o1], <<x[2]>>, <<"?">>, <<x[3]>>, <<":">>, <<x[4]>> >>
               [] f.form = "then_bin" ->
                    << <<x[1]>>, <<"?">>, <<x[2]>>, BinaryLexemes[f.o1], <<x[3]>>, <<":">>, <<x[4]>> >>
               [] f.form = "else_bin" ->
                    << <<x[1]>>, <<"?">>, <<x[2]>>, <<":">>, <<x[3]>>, BinaryLexemes[f.o1], <<x[4]>> >>
               [] f.form = "then_cond" ->
                    << <<x[1]>>, <<"?">>, <<x[2]>>, <<"?">>, <<x[3]>>, <<":">>, <<x[4]>>, <<":">>, <<x[5]>> >>
               [] OTHER ->
                    << <<x[1]>>, <<"?">>, <<x[2]>>, <<":">>, <<x[3]>>, <<"?">>, <<x[4]>>, <<":">>, <<x[5]>> >>)
           : x \in {Operands(f)} })

\* the leaf an operand stands for
Leaf(ch) == IF ch = "t" THEN VariableNode ELSE Literal(DigitVal(ch))

\* the tree the precedence table gives: children are trees, not node ids
TableTree(f) ==
    Pick({ CASE f.form = "bin_bin" ->
                  IF TableLevel(f.o2) > TableLevel(f.o1)
                    THEN Binary(f.o1, x[1], Binary(f.o2, x[2], x[3]))
                    ELSE Binary(f.o2, Binary(f.o1, x[1], x[2]), x[3])
             [] f.form = "bin_cond"  -> Ternary(Binary(f.o1, x[1], x[2]), x[3], x[4])
             [] f.form = "then_bin"  -> Ternary(x[1], Binary(f.o1, x[2], x[3]), x[4])
             [] f.form = "else_bin"  -> Ternary(x[1], x[2], Binary(f.o1, x[3], x[4]))
             [] f.form = "then_cond" -> Ternary(x[1], Ternary(x[2], x[3], x[4]), x[5])
             [] OTHER                -> Ternary(x[1], x[2], Ternary(x[3], x[4], x[5]))
           : x \in {[i \in 1..5 |-> Leaf(Operands(f)[i])]} })

\* every form with its source text and its tree
PrecedenceCases == { [f |-> f, src |-> FormSource(f), tree |-> TableTree(f)] : f \in Forms }

RECURSIVE TreeOf(_, _)
\* the tree below node id of an arena, children unfolded
TreeOf(nodes, id) ==
    CASE nodes[id + 1].kind = "Binary" ->
           Binary(nodes[id + 1].op, TreeOf(nodes, nodes[id + 1].l), TreeOf(nodes, nodes[id + 1].r))
      [] nodes[id + 1].kind = "Ternary" ->
           Ternary(TreeOf(nodes, nodes[id + 1].c), TreeOf(nodes, nodes[id + 1].a),
                   TreeOf(nodes, nodes[id + 1].b))
      [] OTHER -> nodes[id + 1]

InitPrecedence ==
    /\ \E s \in PrecedenceCases : src_in = s.src
    /\ gen = GenIdle
    /\ compiled = NotCompiled
    /\ arena_out = <<>>
    /\ samples = NoSamples
    /\ lexer = LexerNew
    /\ tokens = <<>>
    /\ InitUI
    /\ InitAudio
    /\ InitScope
    /\ InitWasapiIdle
    /\ InitEvent
    /\ InitArithIdle

NextPrecedence ==
    \/ LexerNext
    \/ CompileSource
    \/ EvalCompiled

SpecPrecedence == InitPrecedence /\ [][NextPrecedence]_vars

\* C31: an expression with two operators and no parentheses compiles, and the
\* tree under the root of the Beat is the tree of the precedence table: of two
\* binary operators the one of the higher level binds tighter and two of the
\* same level group to the left; a conditional is looser than every binary
\* operator in its condition and its branches; a conditional in the then or
\* in the else branch of a conditional nests there.
C31_TreeFollowsTable ==
    \A s \in PrecedenceCases :
        (s.src = src_in /\ compiled.done) =>
            /\ compiled.ok
            /\ TreeOf(compiled.beat.nodes, compiled.beat.root) = s.tree

\* C31 witness: "t ? t ? 1 : 2 : 0" compiled to a conditional on t whose else
\* is Literal(0) and whose then is the conditional t ? 1 : 2
C31_NestedTernary ==
    /\ src_in = <<"t", " ", "?", " ", "t", " ", "?", " ", "1", " ", ":", " ", "2", " ", ":", " ", "0">>
    /\ compiled.done /\ compiled.ok
    /\ \E root \in {compiled.beat.nodes[compiled.beat.root + 1]} :
          /\ root.kind = "Ternary"
          /\ compiled.beat.nodes[root.c + 1] = VariableNode
          /\ compiled.beat.nodes[root.b + 1] = Literal(0)
          /\ \E inner \in {compiled.beat.nodes[root.a + 1]} :
                /\ inner.kind = "Ternary"
                /\ compiled.beat.nodes[inner.c + 1] = VariableNode
                /\ compiled.beat.nodes[inner.a + 1] = Literal(1)
                /\ compiled.beat.nodes[inner.b + 1] = Literal(2)

(***************************************************************************)
(* Recovery from lex errors and the errors of unclosed or unconsumed input *)
(* (src/src/parser/parse.rs, parse_bp), over the sources of SpecCompile.   *)
(***************************************************************************)
\* the span of the one-character token at index i (1-based) of a one-line source
CharSpan(i) == SpanNew(0, i - 1, i - 1)

RECURSIVE PrevChar(_, _)
\* the last character before index i that is not a space, NoChar if none
PrevChar(src, i) ==
    IF i <= 1 THEN NoChar
    ELSE IF src[i - 1] # " " THEN src[i - 1]
    ELSE PrevChar(src, i - 1)

\* the unexpected character at index i stands where an operand is expected:
\* at the start, or after an operator, "(", "?" or ":"
OperandPosition(src, i) == PrevChar(src, i) \in {NoChar, "+", "-", "(", "?", ":"}

\* the ids (0-based) of the Error nodes of an arena
ErrorIds(nodes) == {i - 1 : i \in {j \in DOMAIN nodes : nodes[j].kind = "Error"}}

\* the ids of the nodes that have node id as a child
ParentsOf(nodes, id) ==
    {p - 1 : p \in {j \in DOMAIN nodes :
                        \/ nodes[j].kind = "Binary" /\ id \in {nodes[j].l, nodes[j].r}
                        \/ nodes[j].kind = "Ternary" /\ id \in {nodes[j].c, nodes[j].a, nodes[j].b}}}

\* C32: every Error node of the arena has exactly one LexError diagnostic
\* with its span and is the only Error node with that span; an unexpected
\* character in operand position whose diagnostic was recorded has an Error
\* node; and when the lex errors in operand position are the only errors, the
\* parse went on: every Error node is the root or the child of exactly one
\* node built after it.  compile("t + @") fails with exactly one
\* LexError(UnexpectedChar('@')) at column 4 and leaves Variable, Error,
\* Binary(Plus, 0, 1).
C32_ErrorNodePerLexError ==
    compiled.done =>
        /\ \A id \in ErrorIds(arena_out) :
              /\ Cardinality({k \in DOMAIN compiled.errors :
                                 /\ compiled.errors[k].kind = "LexError"
                                 /\ compiled.errors[k].span = arena_out[id + 1].span}) = 1
              /\ Cardinality({j \in ErrorIds(arena_out) :
                                 arena_out[j + 1].span = arena_out[id + 1].span}) = 1
        /\ \A i \in DOMAIN src_in :
              (/\ src_in[i] = "@"
               /\ OperandPosition(src_in, i)
               /\ \E k \in DOMAIN compiled.errors :
                     compiled.errors[k] = LexErrorP(UnexpectedChar("@"), CharSpan(i)))
              => \E id \in ErrorIds(arena_out) : arena_out[id + 1] = ErrorNode(CharSpan(i))
        /\ (ErrorIds(arena_out) # {} /\ Len(compiled.errors) = Cardinality(ErrorIds(arena_out))) =>
              \A id \in ErrorIds(arena_out) :
                  \/ id = Len(arena_out) - 1 /\ ParentsOf(arena_out, id) = {}
                  \/ /\ Cardinality(ParentsOf(arena_out, id)) = 1
                     /\ \A q \in ParentsOf(arena_out, id) : q > id
        /\ src_in = <<"t", " ", "+", " ", "@">> =>
              /\ ~compiled.ok
              /\ compiled.errors = <<LexErrorP(UnexpectedChar("@"), SpanNew(0, 4, 4))>>
              /\ arena_out = <<VariableNode, ErrorNode(SpanNew(0, 4, 4)), Binary("Plus", 0, 1)>>

\* C32 witness: "t + @" was compiled and left the Error node as the right
\* child of the Binary node
C32_RecoveredPlus ==
    /\ src_in = <<"t", " ", "+", " ", "@">>
    /\ compiled.done
    /\ ~compiled.ok
    /\ Len(compiled.errors) = 1
    /\ Len(arena_out) = 3
    /\ arena_out[2].kind = "Error"
    /\ arena_out[3] = Binary("Plus", 0, 1)

\* C33: compile("(") fails with exactly one error, UnmatchedParenthesis, whose
\* span is at column 0, the position of the unclosed parenthesis.
C33_UnclosedParenAtColumnZero ==
    (compiled.done /\ src_in = <<"(">>) =>
        /\ ~compiled.ok
        /\ compiled.errors = <<UnmatchedParenthesis(SpanNew(0, 0, 0))>>

\* C34: in every arena the parser built, of a successful or a failed parse,
\* the child ids of each Binary and Ternary node are ids of the arena strictly
\* smaller than the node's own id; the root of a Beat is an id of its arena;
\* and evaluating the Beat indexes no node outside the arena, for every t.
C34_ChildrenBeforeParents ==
    /\ compiled.done =>
          \A i \in DOMAIN arena_out :
              /\ arena_out[i].kind = "Binary" =>
                    {arena_out[i].l, arena_out[i].r} \subseteq 0..(i - 2)
              /\ arena_out[i].kind = "Ternary" =>
                    {arena_out[i].c, arena_out[i].a, arena_out[i].b} \subseteq 0..(i - 2)
    /\ (compiled.done /\ compiled.ok) =>
          /\ compiled.beat.nodes = arena_out
          /\ compiled.beat.root \in 0..(Len(arena_out) - 1)
    /\ samples.of = "compiled" => \A t \in TSamples : ~samples.at[t].panic

\* C34 witness: a Beat in which a desugared prefix minus (zero pushed after
\* its operand) is the child of a later node was compiled and evaluated
C34_DesugaredMinusEvaluated ==
    /\ samples.of = "compiled"
    /\ \E i \in DOMAIN arena_out :
          /\ arena_out[i].kind = "Binary"
          /\ arena_out[i].op = "Minus"
          /\ arena_out[arena_out[i].l + 1] = Literal(0)
          /\ arena_out[i].l > arena_out[i].r
          /\ ParentsOf(arena_out, i - 1) # {}

\* C35: when Beat::compile returns a Beat the parser has consumed every token
\* up to Eof: a source with tokens left after a complete expression, such as
\* "t)" or "t : 1", is rejected with an error.
C35_WholeInputConsumed ==
    /\ (compiled.done /\ compiled.ok) =>
          parse_bp(src_in, ParserNew(src_in), 0).ps.cur.tok = TokEof
    /\ (compiled.done /\ src_in \in {<<"t", ")">>, <<"t", " ", ":", " ", "1">>}) =>
          (~compiled.ok /\ compiled.errors # <<>>)

(***************************************************************************)
(* The sample counter at the end of its range.  The program has streamed   *)
(* for 2^31 - 2 or 2^31 - 1 frames (half a day or more of sound) with the  *)
(* beat "t" and everything handed to the device has been played; then the  *)
(* stream was paused (PipeWire) or the device was invalidated (WASAPI).    *)
(* The logs of the model (evals, reported, buffers) start again from here; *)
(* the play cursor is not updated in this specification.                   *)
(***************************************************************************)
\* the Beat of the source "t"
BeatT == BeatOf(<<VariableNode>>, 0)

InitOverflow ==
    /\ InitCompile
    /\ InitUI
    /\ InitArithIdle
    /\ InitEvent
    /\ cmd_queue = <<>>
    /\ BEAT = [ver |-> 1, beat |-> BeatT]
    /\ stored = <<DefaultBeat, BeatT>>
    /\ stream_active = FALSE
    /\ stream_volume = VolumeDefault
    /\ T_WRITE \in {INT32_MAX - 1, INT32_MAX}
    /\ ring = <<>>
    /\ proc = Idle
    /\ sends = 0
    /\ buffers = 0
    /\ evals = <<>>
    /\ capacity = RingCapacity
    /\ T_PLAY = T_WRITE
    /\ played = 0
    /\ timer = TimerIdle
    /\ scope = ScopeNew
    /\ backend \in {"pipewire", "wasapi"}
    /\ state_tracker = [current |-> IF backend = "pipewire" THEN "Unconnected" ELSE "Connecting"]
    /\ reported = <<>>
    /\ wasapi = WasapiStart

NextOverflow ==
    \/ ClientPlay
    \/ ClientPause
    \/ AudioCommandHandler
    \/ \E n \in 0..MaxFrames : ProcessStart(n)
    \/ ProcessFrame
    \/ ProcessEnd
    \/ \E ok \in BOOLEAN : WasapiInit(ok)
    \/ WasapiCommand
    \/ \E res \in RenderOutcomes : WasapiPass("none", res)
    \/ WasapiDevicePlays

SpecOverflow == InitOverflow /\ [][NextOverflow]_vars

\* the index after t, modulo 2^32
NextIndex(t) == IF t = INT32_MAX THEN INT32_MIN ELSE t + 1

\* C36: the frame loop never panics on its counter, on either backend: the
\* samples are evaluated at consecutive indices modulo 2^32, INT32_MIN
\* following INT32_MAX, and T_WRITE is the index after the last one evaluated.
C36_CounterWraps ==
    /\ proc.state # "panicked"
    /\ wasapi.pc # "panicked"
    /\ \A i \in DOMAIN evals : ~evals[i].panic
    /\ \A i \in 1..(Len(evals) - 1) : evals[i + 1].t = NextIndex(evals[i].t)
    /\ evals # <<>> => T_WRITE = NextIndex(evals[Len(evals)].t)

(***************************************************************************)
(* The WASAPI thread produces samples only while its tracked status is     *)
(* Streaming (src/src/audio/wasapi.rs), checked under SpecWasapi.          *)
(***************************************************************************)
\* the thread takes the command at the head of the channel
Takes(kind) ==
    /\ wasapi.pc = "commands"
    /\ cmd_queue # <<>>
    /\ Head(cmd_queue).kind = kind
    /\ cmd_queue' = Tail(cmd_queue)

\* C37: on the WASAPI backend a step that advances T_WRITE, evaluates a
\* sample or pushes to the ring starts in status Streaming, so nothing is
\* produced while the status is Unconnected, Connecting, Paused or Error; a
\* successful initialisation, the first or a later one, ends in status
\* Paused with the device stopped, a failed one in Error; Play while
\* Streaming and Pause while not Streaming change neither the status nor
\* anything else of the stream and report nothing; Play otherwise reports
\* Streaming and Pause while Streaming reports Paused; commands are taken
\* only in status Paused or Streaming.
C37_SamplesOnlyWhileStreaming ==
    /\ [][ /\ (T_WRITE' # T_WRITE \/ ring' # ring \/ evals' # evals) =>
                state_tracker.current = "Streaming"
           /\ (wasapi.pc = "init" /\ wasapi'.pc = "commands") =>
                /\ state_tracker'.current = "Paused"
                /\ ~stream_active'
                /\ reported'[Len(reported')] = "Paused"
           /\ (wasapi.pc = "init" /\ wasapi'.pc = "init" /\ wasapi'.inits # wasapi.inits) =>
                state_tracker'.current = "Error"
           /\ ((Takes("Play") /\ state_tracker.current = "Streaming")
                  \/ (Takes("Pause") /\ state_tracker.current # "Streaming")) =>
                UNCHANGED <<state_tracker, reported, stream_active, T_WRITE, T_PLAY, ring, evals,
                            BEAT, stream_volume, wasapi>>
           /\ (Takes("Play") /\ state_tracker.current # "Streaming") =>
                /\ state_tracker'.current = "Streaming"
                /\ reported' = Append(reported, "Streaming")
           /\ (Takes("Pause") /\ state_tracker.current = "Streaming") =>
                /\ state_tracker'.current = "Paused"
                /\ reported' = Append(reported, "Paused") ]_vars
    /\ [](wasapi.pc = "commands" => state_tracker.current \in {"Paused", "Streaming"})

\* C37 witness: the device was invalidated while streaming and initialised
\* again; samples were produced before, the status is Paused, and a Pause is
\* about to be taken while not Streaming
C37_PausedAfterReinit ==
    /\ InvalidatedWhileStreaming
    /\ T_WRITE > 0
    /\ wasapi.pc = "commands"
    /\ state_tracker.current = "Paused"
    /\ reported[Len(reported)] = "Paused"
    /\ reported[Len(reported) - 1] = "Connecting"
    /\ cmd_queue # <<>>
    /\ Head(cmd_queue).kind = "Pause"

(***************************************************************************)
(* The scope with its chart about to fill up (src/src/app/scope.rs).  The  *)
(* WASAPI thread has streamed the beat "t" for one frame less than         *)
(* CHART_SAMPLES, all of them played, popped by the scope and moved       *)
(* to the chart; it goes on streaming.  The logs of the model (evals,      *)
(* buffers) start again from here.                                        *)
(***************************************************************************)
\* frames streamed so far
StreamedSoFar == CHART_SAMPLES - 1

\* the scope after n samples of the beat "t" went through it
ScopeAfter(n) ==
    [t_read |-> n, intermediate_queue |-> <<>>,
     chart_buffer |-> [k \in 1..n |-> <<k - 1, AsU8(k - 1)>>],
     t_chart_head |-> n - 1]

InitChart ==
    /\ InitCompile
    /\ InitUI
    /\ InitArithIdle
    /\ InitEvent
    /\ cmd_queue = <<>>
    /\ BEAT = [ver |-> 1, beat |-> BeatT]
    /\ stored = <<DefaultBeat, BeatT>>
    /\ stream_active = TRUE
    /\ stream_volume = VolumeDefault
    /\ T_WRITE = StreamedSoFar
    /\ ring = <<>>
    /\ proc = Idle
    /\ sends = 0
    /\ buffers = 0
    /\ evals = <<>>
    /\ capacity = RingCapacity
    /\ T_PLAY = T_WRITE
    /\ played = 0
    /\ timer = TimerIdle
    /\ scope = ScopeAfter(T_WRITE)
    /\ backend = "wasapi"
    /\ state_tracker = [current |-> "Streaming"]
    /\ reported = <<>>
    /\ wasapi = [pc |-> "commands", padding |-> 0, inits |-> 1]

NextChart ==
    \/ \E t_sync \in {"none", "padding"} : WasapiPass(t_sync, "ok")
    \/ WasapiDevicePlays
    \/ ScopePop
    \/ ScopeSync

SpecChart == InitChart /\ [][NextChart]_vars

\* C38: at every point of Scope::update every sample popped from the ring is
\* either in the intermediate queue or was moved to the chart, once:
\* t_read = Len(intermediate_queue) + t_chart_head + 1; the chart holds at
\* most CHART_SAMPLES points, their x values are consecutive and end at
\* t_chart_head, and their y values are the samples in the order they were
\* popped; an update moves t_chart_head only forwards and never beyond the
\* t_play it read.
C38_ScopeAccounting ==
    /\ [](/\ scope.t_read = Len(scope.intermediate_queue) + scope.t_chart_head + 1
          /\ Len(scope.chart_buffer) <= CHART_SAMPLES
          /\ \A c \in {scope.chart_buffer} : \A h \in {scope.t_chart_head - Len(c)} :
                \A k \in 1..Len(c) : c[k][1] = h + k)
    /\ [][ /\ scope'.t_chart_head >= scope.t_chart_head
           /\ scope'.t_chart_head > scope.t_chart_head =>
                /\ scope'.t_chart_head <= T_PLAY
                /\ scope'.t_read = scope.t_read
                /\ \A k \in 1..(scope'.t_chart_head - scope.t_chart_head) :
                      scope'.chart_buffer[Len(scope'.chart_buffer)
                                            - (scope'.t_chart_head - scope.t_chart_head) + k]
                        = <<scope.t_chart_head + k, scope.intermediate_queue[k]>>
           /\ scope'.t_read # scope.t_read =>
                /\ scope'.t_read = scope.t_read + 1
                /\ scope'.intermediate_queue = Append(scope.intermediate_queue, Head(ring))
                /\ ring' = Tail(ring) ]_vars

\* C38 witness: the chart is full and has dropped its oldest points, and
\* samples popped from the ring are waiting in the intermediate queue
C38_ChartScrolled ==
    /\ Len(scope.chart_buffer) = CHART_SAMPLES
    /\ scope.chart_buffer[1][1] > 0
    /\ scope.t_chart_head >= CHART_SAMPLES
    /\ scope.intermediate_queue # <<>>

(***************************************************************************)
(* The line editor on its own (src/src/app/input.rs): the LineInput of the *)
(* App's interactive input is built by Default or by from_str and then     *)
(* driven by its six operations.  Vec::insert panics when the index is     *)
(* above the length and Vec::remove when it is not below it; a panic of    *)
(* the UI thread is recorded in the App.                                   *)
(***************************************************************************)
MaxLineLen == 4

MaxCount == 2

LineAlphabet == {"t", " ", EAcute}

\* the strings handed to from_str
LineTexts == {<<>>, <<"t">>, <<"t", " ", "t">>, <<EAcute>>, <<"t", EAcute>>}

LineOf(self) == self.beat_input.input

WithLine(self, inp) == [self EXCEPT !.beat_input.input = inp]

InitLineInput ==
    /\ InitCompile
    /\ \E inp \in {LineInputDefault} \cup {from_str(s) : s \in LineTexts} :
          app = WithLine(AppNew, inp)
    /\ term_queue = <<>>
    /\ keys_pressed = 0
    /\ last_submit = NoSubmit
    /\ InitAudio
    /\ InitScope
    /\ InitWasapiIdle
    /\ InitEvent
    /\ InitArithIdle

\* self.buf.insert(self.cursor, c)
LineAdd(c) ==
    /\ ~app.panicked
    /\ Len(LineOf(app).buf) < MaxLineLen
    /\ app' = IF LineOf(app).cursor > Len(LineOf(app).buf)
                THEN [app EXCEPT !.panicked = TRUE]
                ELSE WithLine(app, add(LineOf(app), c))
    /\ UNCHANGED <<compileVars, term_queue, keys_pressed, last_submit, cmd_queue, audioVars,
                   arithVars, scopeVars, wasapiVars, eventVars>>

\* self.buf.remove(self.cursor - 1) after the early return
LineRemove ==
    /\ ~app.panicked
    /\ app' = IF /\ LineOf(app).buf # <<>>
                 /\ LineOf(app).cursor # 0
                 /\ LineOf(app).cursor - 1 >= Len(LineOf(app).buf)
                THEN [app EXCEPT !.panicked = TRUE]
                ELSE WithLine(app, remove(LineOf(app)))
    /\ UNCHANGED <<compileVars, term_queue, keys_pressed, last_submit, cmd_queue, audioVars,
                   arithVars, scopeVars, wasapiVars, eventVars>>

LineShiftLeft(count) ==
    /\ ~app.panicked
    /\ app' = WithLine(app, shift_left(LineOf(app), count))
    /\ UNCHANGED <<compileVars, term_queue, keys_pressed, last_submit, cmd_queue, audioVars,
                   arithVars, scopeVars, wasapiVars, eventVars>>

LineShiftRight(count) ==
    /\ ~app.panicked
    /\ app' = WithLine(app, shift_right(LineOf(app), count))
    /\ UNCHANGED <<compileVars, term_queue, keys_pressed, last_submit, cmd_queue, audioVars,
                   arithVars, scopeVars, wasapiVars, eventVars>>

LineJumpLeft ==
    /\ ~app.panicked
    /\ app' = WithLine(app, jump_left(LineOf(app)))
    /\ UNCHANGED <<compileVars, term_queue, keys_pressed, last_submit, cmd_queue, audioVars,
                   arithVars, scopeVars, wasapiVars, eventVars>>

LineJumpRight ==
    /\ ~app.panicked
    /\ app' = WithLine(app, jump_right(LineOf(app)))
    /\ UNCHANGED <<compileVars, term_queue, keys_pressed, last_submit, cmd_queue, audioVars,
                   arithVars, scopeVars, wasapiVars, eventVars>>

NextLineInput ==
    \/ \E c \in LineAlphabet : LineAdd(c)
    \/ LineRemove
    \/ \E count \in 0..MaxCount : LineShiftLeft(count)
    \/ \E count \in 0..MaxCount : LineShiftRight(count)
    \/ LineJumpLeft
    \/ LineJumpRight

SpecLineInput == InitLineInput /\ [][NextLineInput]_vars

\* C39: in every state of a LineInput built by Default or from_str and driven
\* by its operations the cursor is between 0 and the number of characters of
\* the buffer and no operation has indexed outside the buffer; remove at
\* cursor 0 changes nothing, and add(c) followed by remove gives back the
\* buffer and the cursor.
C39_CursorInsideBuffer ==
    /\ ~app.panicked
    /\ LineOf(app).cursor >= 0
    /\ LineOf(app).cursor <= Len(LineOf(app).buf)
    /\ LineOf(app).cursor = 0 => remove(LineOf(app)) = LineOf(app)
    /\ \A c \in LineAlphabet : remove(add(LineOf(app), c)) = LineOf(app)

(***************************************************************************)
(* The table state on its own (src/src/app/library/dynatable.rs): the      *)
(* DynaTableState of the Library is driven by its six operations, sync     *)
(* with heights and item counts that give every page size from 1 to        *)
(* MAX_KEYS, with and without a partial last page.                         *)
(***************************************************************************)
Heights == {0, 1, 2, 3, 70, 200}

RowHeights == {0, 1, 2}

ItemCounts == {0, 1, Len(SONGS), 5, 63, 70}

TableKeys == {"0", "1", "2", "9", "a", "z", "A", "Z", "?"}

TableOf(self) == self.library.table_state

WithTable(self, st) == [self EXCEPT !.library.table_state = st]

InitTable ==
    /\ InitCompile
    /\ InitUI
    /\ InitAudio
    /\ InitScope
    /\ InitWasapiIdle
    /\ InitEvent
    /\ InitArithIdle

TableSync(usable_height, total_items, row_height) ==
    /\ app' = WithTable(app, sync(TableOf(app), usable_height, total_items, row_height))
    /\ UNCHANGED <<compileVars, term_queue, keys_pressed, last_submit, cmd_queue, audioVars,
                   arithVars, scopeVars, wasapiVars, eventVars>>

TableSelectByKey(c) ==
    /\ app' = WithTable(app, select_by_key(TableOf(app), c))
    /\ UNCHANGED <<compileVars, term_queue, keys_pressed, last_submit, cmd_queue, audioVars,
                   arithVars, scopeVars, wasapiVars, eventVars>>

TableSelectNext ==
    /\ app' = WithTable(app, select_next(TableOf(app)))
    /\ UNCHANGED <<compileVars, term_queue, keys_pressed, last_submit, cmd_queue, audioVars,
                   arithVars, scopeVars, wasapiVars, eventVars>>

TableSelectPrev ==
    /\ app' = WithTable(app, select_prev(TableOf(app)))
    /\ UNCHANGED <<compileVars, term_queue, keys_pressed, last_submit, cmd_queue, audioVars,
                   arithVars, scopeVars, wasapiVars, eventVars>>

TableNextPage ==
    /\ app' = WithTable(app, next_page(TableOf(app)))
    /\ UNCHANGED <<compileVars, term_queue, keys_pressed, last_submit, cmd_queue, audioVars,
                   arithVars, scopeVars, wasapiVars, eventVars>>

TablePrevPage ==
    /\ app' = WithTable(app, prev_page(TableOf(app)))
    /\ UNCHANGED <<compileVars, term_queue, keys_pressed, last_submit, cmd_queue, audioVars,
                   arithVars, scopeVars, wasapiVars, eventVars>>

NextTable ==
    \/ \E h \in Heights, n \in ItemCounts, rh \in RowHeights : TableSync(h, n, rh)
    \/ \E c \in TableKeys : TableSelectByKey(c)
    \/ TableSelectNext
    \/ TableSelectPrev
    \/ TableNextPage
    \/ TablePrevPage

SpecTable == InitTable /\ [][NextTable]_vars

\* C40: after any sequence of sync, select_by_key, select_next, select_prev,
\* next_page and prev_page a present selection is a row of the current page
\* (selection < page_len) and selected_index() is below total_items, so that
\* selected_song does not index outside SONGS when the table was synced with
\* its length; next_page and prev_page clear the selection when they change
\* the page, and next_page on the last page and prev_page on page 0 change
\* nothing.
C40_SelectionIsValidRow ==
    \A st \in {TableOf(app)} :
        /\ st.selection # None =>
              /\ st.selection[1] >= 0
              /\ st.selection[1] < page_len(st)
              /\ selected_index(st)[1] < st.total_items
        /\ st.total_items = Len(SONGS) => selected_song(app.library).kind # "IndexOutOfBounds"
        /\ next_page(st).page # st.page =>
              /\ next_page(st).page = st.page + 1
              /\ next_page(st).selection = None
        /\ prev_page(st).page # st.page =>
              /\ prev_page(st).page = st.page - 1
              /\ prev_page(st).selection = None
        /\ st.page + 1 >= total_pages(st) => next_page(st) = st
        /\ st.page = 0 => prev_page(st) = st

\* C40 witness: a row is selected on a last page that is shorter than the
\* pages before it, and the table holds more rows than one page can show keys
\* for
C40_SelectionOnPartialLastPage ==
    /\ TableOf(app).selection # None
    /\ TableOf(app).page > 0
    /\ TableOf(app).page + 1 = total_pages(TableOf(app))
    /\ page_len(TableOf(app)) < TableOf(app).items_per_page
    /\ TableOf(app).items_per_page = MAX_KEYS

====
